---- MODULE Spec2Model ----
(***************************************************************************)
(* Roster simulation engine of espn_api/utils/advanced_simulator.py        *)
(* (class AdvancedFantasySimulator).                                       *)
(*                                                                         *)
(* Units.  Player points (avg_points, projected_avg_points, one sampled    *)
(* score) are integers.  Every float the code derives from them by a       *)
(* multiplication with a decimal factor (opponent_defense_rating, the 0.3  *)
(* bench weight, the 0.5 priority multiplier) is kept in TENTHS of a       *)
(* point, so 0.3 * v is 3 * v tenths and 1.0 * v is 10 * v tenths.         *)
(* A quotient a / b is kept as the pair <<a, b>> and compared by cross     *)
(* multiplication.                                                         *)
(***************************************************************************)
EXTENDS Integers, Sequences, FiniteSets, TLC

VARIABLES
    teams,               \* self.league.teams: sequence of team records
    current_week,        \* self.league.current_week
    playoff_team_count,  \* self.league.settings.playoff_team_count
    num_simulations,     \* self.num_simulations
    use_gmm,             \* self.use_gmm
    models,              \* self.player_model.models: ids of the fitted players
    player_states,       \* self.player_model.player_states: id -> season_avg
    pc,                  \* position of the running call
    call,                \* the arguments of the running call
    ret,                 \* the value the call returned
    raised,              \* TRUE when the call ended by an exception
    trial,               \* the loop counter "for _ in range(n)"
    team1_wins,          \* simulate_matchup: local team1_wins
    scores,              \* the pair of scores drawn last (team1/team, team2/opp)
    season_wins,         \* simulate_season_rest_of_season: local season_wins
    results,             \* simulate_season_rest_of_season: local results
    cursor,              \* season loops: the number of schedule entries walked
    bracket,             \* _simulate_playoff_bracket: local teams
    n_components,        \* self.player_model.n_components
    cache,               \* the files of cache_dir: <<id, year>> -> model and state
    reg_season_count,    \* self.league.settings.reg_season_count
    team_ratings         \* MonteCarloSimulator.team_ratings: id -> rating

vars == <<teams, current_week, playoff_team_count, num_simulations, use_gmm,
          models, player_states, pc, call, ret, raised, trial, team1_wins,
          scores, season_wins, results, cursor, bracket, n_components, cache,
          reg_season_count, team_ratings>>

leagueVars == <<teams, current_week, playoff_team_count, num_simulations,
                use_gmm, models, player_states, n_components, cache,
                reg_season_count, team_ratings>>

(***************************************************************************)
(* Python values                                                           *)
(***************************************************************************)
\* An attribute that holds a number, holds None, or is not set on the object
\* (hasattr is False).  The three are records so that they compare with "=".
Num(n) == [tag |-> "num", v |-> n]
None == [tag |-> "none", v |-> 0]
Absent == [tag |-> "absent", v |-> 0]

\* bool(a) of a number or None
Truthy(a) == a.tag = "num" /\ a.v # 0

\* getattr(x, name, 0)
GetAttr0(a) == IF a = Absent THEN Num(0) ELSE a

Min2(a, b) == IF a <= b THEN a ELSE b
Max2(a, b) == IF a >= b THEN a ELSE b
Abs(a) == IF a < 0 THEN -a ELSE a

RECURSIVE SumSeq(_)
SumSeq(s) == IF s = <<>> THEN 0 ELSE Head(s) + SumSeq(Tail(s))

SeqToSet(s) == {s[i] : i \in 1..Len(s)}

\* s[:n] of Python for n >= 0
Take(s, n) == SubSeq(s, 1, Min2(n, Len(s)))

\* s[n:] of Python for n >= 0
Drop(s, n) == SubSeq(s, Min2(n, Len(s)) + 1, Len(s))

\* x in s
In(x, s) == \E i \in 1..Len(s) : s[i] = x

\* s.remove(x): the first occurrence only
RECURSIVE Remove(_, _)
Remove(s, x) ==
    IF s = <<>> THEN <<>>
    ELSE IF Head(s) = x THEN Tail(s)
    ELSE <<Head(s)>> \o Remove(Tail(s), x)

\* [p for p in s if p not in t]
Without(s, t) == SelectSeq(s, LAMBDA p : ~In(p, t))

(***************************************************************************)
(* Players and their values                                                *)
(***************************************************************************)
\* lineupSlot is not set on the player (hasattr is False)
SlotAbsent == "<unset>"
\* injuryStatus is None
StatusNone == "<None>"

Player(id, pos, proj, avg, slot, status) ==
    [playerId |-> id, position |-> pos, projected_avg_points |-> proj,
     avg_points |-> avg, lineupSlot |-> slot, injuryStatus |-> status]

\* getattr(x, 'projected_avg_points', 0) or getattr(x, 'avg_points', 0),
\* for players whose avg_points is a number or is not set
PlayerValue(p) ==
    IF Truthy(GetAttr0(p.projected_avg_points))
    THEN p.projected_avg_points.v
    ELSE GetAttr0(p.avg_points).v

(***************************************************************************)
(* _get_optimal_lineup                                                     *)
(***************************************************************************)
\* list.sort(key=value, reverse=True): stable, equal keys keep their order
RECURSIVE InsertDesc(_, _)
InsertDesc(sorted, p) ==
    IF sorted = <<>> THEN <<p>>
    ELSE IF PlayerValue(Head(sorted)) >= PlayerValue(p)
         THEN <<Head(sorted)>> \o InsertDesc(Tail(sorted), p)
         ELSE <<p>> \o sorted

RECURSIVE SortDesc(_)
SortDesc(s) ==
    IF s = <<>> THEN <<>>
    ELSE InsertDesc(SortDesc(SubSeq(s, 1, Len(s) - 1)), s[Len(s)])

\* every player of the position, whatever the count
get_all(remaining, pos, count) ==
    SelectSeq(remaining, LAMBDA p : p.position = pos)

\* get_best(pos, count) on the list "remaining": the selected players
get_best(remaining, pos, count) ==
    Take(SortDesc(SelectSeq(remaining, LAMBDA p : p.position = pos)), count)

RECURSIVE RemoveEach(_, _)
RemoveEach(remaining, selected) ==
    IF selected = <<>> THEN remaining
    ELSE RemoveEach(Remove(remaining, Head(selected)), Tail(selected))

\* "Fill required positions": the slots in the order of the six calls
RequiredSlots ==
    << <<"QB", 1>>, <<"RB", 2>>, <<"WR", 2>>, <<"TE", 1>>, <<"K", 1>>, <<"D/ST", 1>> >>

FlexPositions == {"RB", "WR", "TE"}

\* the six get_best calls: [lineup, remaining] after the first n of them
RECURSIVE FillRequired(_, _)
FillRequired(roster, n) ==
    IF n = 0 THEN [lineup |-> <<>>, remaining |-> roster]
    ELSE LET before == FillRequired(roster, n - 1)
             sel == get_best(before.remaining, RequiredSlots[n][1], RequiredSlots[n][2])
         IN [lineup |-> before.lineup \o sel,
             remaining |-> RemoveEach(before.remaining, sel)]

\* never used by the model: a callee that works on the caller's own object
Shared(original, worked) == worked

\* "remaining = roster.copy()": the callee works on another object, and the
\* original keeps what it held
Kept(original, worked) == original

\* the roster passed to _get_optimal_lineup, after the call: the players
\* get_best removes are removed from `remaining`
RosterAfterLineup(roster) ==
    Kept(roster, FillRequired(roster, Len(RequiredSlots)).remaining)

\* the last of the maximal elements
RECURSIVE LastByValue(_)
LastByValue(s) ==
    IF Len(s) = 1 THEN s[1]
    ELSE LET m == LastByValue(SubSeq(s, 1, Len(s) - 1))
         IN IF PlayerValue(s[Len(s)]) >= PlayerValue(m) THEN s[Len(s)] ELSE m

\* max(seq, key=value): the first of the maximal elements
RECURSIVE MaxByValue(_)
MaxByValue(s) ==
    IF Len(s) = 1 THEN s[1]
    ELSE LET m == MaxByValue(SubSeq(s, 1, Len(s) - 1))
         IN IF PlayerValue(s[Len(s)]) > PlayerValue(m) THEN s[Len(s)] ELSE m

\* min(seq, key=value): the first of the minimal elements
RECURSIVE MinByValue(_)
MinByValue(s) ==
    IF Len(s) = 1 THEN s[1]
    ELSE LET m == MinByValue(SubSeq(s, 1, Len(s) - 1))
         IN IF PlayerValue(s[Len(s)]) < PlayerValue(m) THEN s[Len(s)] ELSE m

_get_optimal_lineup(roster) ==
    LET req == FillRequired(roster, Len(RequiredSlots))
        flex_eligible == SelectSeq(req.remaining, LAMBDA p : p.position \in FlexPositions)
    IN IF flex_eligible # <<>>
       THEN req.lineup \o <<MaxByValue(flex_eligible)>>
       ELSE req.lineup

(***************************************************************************)
(* simulate_roster_score                                                   *)
(***************************************************************************)
\* how far from the mean the modelled draws of a Normal reach, in points
Spread == 2
\* the largest sample the fitted mixture is modelled to return, in points
GmmMax == 2

\* opponent_defense_rating: float = 1.0, in tenths
DefaultRating == 10

\* an outcome of a call: the value returned, or an exception
Returned(v) == [raised |-> FALSE, value |-> v]
Raise == [raised |-> TRUE, value |-> 0]

\* np.random.normal(mean, std): ValueError when std < 0, the mean itself when
\* std = 0, otherwise any real number (here the integers within Spread)
NormalDraws(mean, std) ==
    IF std < 0 THEN {Raise}
    ELSE IF std = 0 THEN {Returned(mean)}
    ELSE {Returned(mean + d) : d \in -Spread..Spread}

\* "mean = player.projected_avg_points if hasattr(...) and
\*  player.projected_avg_points > 0 else player.avg_points":
\* None > 0 is a TypeError, a missing avg_points an AttributeError, and a mean
\* of None a TypeError in mean * 0.25
FallbackMean(p) ==
    LET proj == p.projected_avg_points
        avg == IF p.avg_points.tag = "num" THEN Returned(p.avg_points.v) ELSE Raise
    IN IF proj = Absent THEN avg
       ELSE IF proj = None THEN Raise
       ELSE IF proj.v > 0 THEN Returned(proj.v)
       ELSE avg

\* std = mean * 0.25 (kept in quarters of a point: only its sign decides)
FallbackStd(mean) == mean

\* player_model.predict_performance(player, n_samples=1)[0]: a sample of the
\* fitted mixture, clipped to >= 0
PredictPerformance(p) == {Returned(v) : v \in 0..GmmMax}

\* the sample of one starter, in points
PlayerSamples(p) ==
    IF use_gmm /\ p.playerId \in models
    THEN PredictPerformance(p)
    ELSE LET m == FallbackMean(p)
         IN IF m.raised THEN {Raise} ELSE NormalDraws(m.value, FallbackStd(m.value))

\* "predicted_score *= opponent_defense_rating; predicted_score = max(0, ..)",
\* in tenths of a point
AdjustedScore(sample, rating) == Max2(0, sample * rating)

\* "starters = [p for p in team.roster if hasattr(p, 'lineupSlot') and
\*  p.lineupSlot not in ['BE', 'IR', '']]", else the optimal lineup
Starters(roster) ==
    LET slotted == SelectSeq(roster, LAMBDA p :
                       p.lineupSlot # SlotAbsent /\ p.lineupSlot \notin {"BE", "IR", ""})
    IN IF slotted = <<>> THEN _get_optimal_lineup(roster) ELSE slotted

\* the loop over the starters: every total_score the loop can end with, or
\* the exception of the first starter whose sampling raises
RECURSIVE ScoreLoop(_, _)
ScoreLoop(starters, rating) ==
    IF starters = <<>> THEN {Returned(0)}
    ELSE LET before == ScoreLoop(SubSeq(starters, 1, Len(starters) - 1), rating)
             last == PlayerSamples(starters[Len(starters)])
         IN {IF a.raised \/ b.raised THEN Raise
             ELSE Returned(a.value + AdjustedScore(b.value, rating)) :
                 a \in before, b \in last}

\* the outcomes of simulate_roster_score(team, week, opponent_defense_rating)
simulate_roster_score(roster, rating) == ScoreLoop(Starters(roster), rating)

Team(id, roster, wins, schedule) ==
    [team_id |-> id, roster |-> roster, wins |-> wins, schedule |-> schedule]

\* next(t for t in self.league.teams if t.team_id == id)
TeamById(id) == teams[CHOOSE i \in 1..Len(teams) : teams[i].team_id = id /\
                        \A j \in 1..(i - 1) : teams[j].team_id # id]

\* the league after a call that ran _get_optimal_lineup on the rosters of the
\* teams ids
TeamsAfterLineups(ids) ==
    [i \in 1..Len(teams) |->
        IF teams[i].team_id \in ids
        THEN [teams[i] EXCEPT !.roster = RosterAfterLineup(@)]
        ELSE teams[i]]

\* what the simulator holds besides the teams
settingVars == <<current_week, playoff_team_count, num_simulations, use_gmm,
                 models, player_states, n_components, cache,
                 reg_season_count, team_ratings>>

\* no MonteCarloSimulator was made on the league; the operations of the roster
\* simulator and of the performance model read neither variable
NoRatings == reg_season_count = 0 /\ team_ratings = <<>>

\* PlayerPerformanceModel(n_components=3, cache_dir=...) of the tests
ConfiguredComponents == 3

\* what the variables of the other operations hold while they do not run
NoLocals ==
    /\ trial = 0
    /\ team1_wins = 0
    /\ scores = <<0, 0>>
    /\ season_wins = <<>>
    /\ results = <<>>
    /\ cursor = 0
    /\ bracket = <<>>

locals == <<trial, team1_wins, scores, season_wins, results, cursor, bracket>>

(***************************************************************************)
(* Specification SpecScore: one call of simulate_roster_score              *)
(***************************************************************************)
ScoreMaxRoster == 2
ScoreMaxPoints == 1
ScoreNegPoints == 1
ScorePositions == {"QB", "LB"}
ScoreSlots == {SlotAbsent, "BE", "QB"}
ScoreRatings == {-10, 0, 5, DefaultRating}

ScorePlayers(id) ==
    {Player(id, pos, Num(proj), Num(avg), slot, StatusNone) :
        pos \in ScorePositions, proj \in 0..ScoreMaxPoints,
        avg \in -ScoreNegPoints..ScoreMaxPoints, slot \in ScoreSlots}

ScoreRosters ==
    UNION {{r \in [1..n -> UNION {ScorePlayers(i) : i \in 1..n}] :
               \A i \in 1..n : r[i].playerId = i} : n \in 0..ScoreMaxRoster}

InitScore ==
    /\ n_components = ConfiguredComponents
    /\ cache = <<>>
    /\ NoRatings
    /\ \E r \in ScoreRosters : teams = <<Team(1, r, 0, <<>>)>>
    /\ current_week = 0
    /\ playoff_team_count = 0
    /\ num_simulations = 1
    /\ use_gmm \in BOOLEAN
    /\ models \in {{}, {1}}
    /\ player_states = <<>>
    /\ pc = "start"
    /\ \E r \in ScoreRatings :
           call = [op |-> "simulate_roster_score", team |-> 1,
                   opponent_defense_rating |-> r]
    /\ ret = 0
    /\ raised = FALSE
    /\ NoLocals

SimulateRosterScore ==
    /\ pc = "start"
    /\ call.op = "simulate_roster_score"
    /\ \E o \in simulate_roster_score(TeamById(call.team).roster,
                                      call.opponent_defense_rating) :
           /\ ret' = o.value
           /\ raised' = o.raised
    /\ pc' = "done"
    /\ UNCHANGED <<leagueVars, call, locals>>

NextScore == SimulateRosterScore

SpecScore == InitScore /\ [][NextScore]_vars

\* C2: simulate_roster_score returns, for every roster and every rating, a
\* value >= 0 without raising, and exactly 0 when there are no starters.
ScoreNonNegativeNoRaise ==
    (pc = "done" /\ call.op = "simulate_roster_score") =>
        /\ ~raised
        /\ ret >= 0
        /\ (Starters(TeamById(call.team).roster) = <<>> => ret = 0)

(***************************************************************************)
(* The leagues of the league-wide specifications: every team holds at most *)
(* one quarterback, so a team's score is that player's adjusted sample.    *)
(***************************************************************************)
LeagueMaxPoints == 2

\* the rosters of team id: empty, or one player whose mean is negative, zero
\* or positive, taken from the projection or from the average
LeagueRosters(id) ==
    {<<>>} \cup
    {<<Player(id, "QB", Num(proj), Num(avg), SlotAbsent, StatusNone)>> :
        proj \in {0, LeagueMaxPoints}, avg \in -1..1}

(***************************************************************************)
(* simulate_matchup                                                        *)
(***************************************************************************)
\* "if n_simulations is None: n_simulations = self.num_simulations"
NSimulations == IF call.n_simulations = None THEN num_simulations
                ELSE call.n_simulations.v

\* never used by the model: a tie counted for team1
TallyWinOrTie(wins, team1_score, team2_score) ==
    IF team1_score >= team2_score THEN wins + 1 ELSE wins

\* "if team1_score > team2_score: team1_wins += 1"
TallyWin(wins, team1_score, team2_score) ==
    IF team1_score > team2_score THEN wins + 1 ELSE wins

\* the two probabilities of the returned dict, each a quotient <<a, b>>:
\* team1_wins / n * 100 and (n - team1_wins) / n * 100
WinProbabilitiesNoScale(wins, n) ==
    [team1_win_probability |-> <<wins * 100, n>>,
     team2_win_probability |-> <<100 * n - wins, n>>]

WinProbabilities(wins, n) ==
    [team1_win_probability |-> <<wins * 100, n>>,
     team2_win_probability |-> <<(n - wins) * 100, n>>]

MatchupMaxSims == 2

InitMatchup ==
    /\ n_components = ConfiguredComponents
    /\ cache = <<>>
    /\ NoRatings
    /\ \E r1 \in LeagueRosters(1), r2 \in LeagueRosters(2) :
           teams = <<Team(1, r1, 0, <<>>), Team(2, r2, 0, <<>>)>>
    /\ current_week = 0
    /\ playoff_team_count = 0
    /\ \E n \in 1..MatchupMaxSims, given \in BOOLEAN :
           /\ num_simulations = IF given THEN MatchupMaxSims ELSE n
           /\ call = [op |-> "simulate_matchup", team1 |-> 1, team2 |-> 2,
                      n_simulations |-> IF given THEN Num(n) ELSE None]
    /\ use_gmm \in BOOLEAN
    /\ models = {1}
    /\ player_states = <<>>
    /\ pc = "loop"
    /\ ret = 0
    /\ raised = FALSE
    /\ NoLocals

\* one pass of "for _ in range(n_simulations)"
MatchupTrial ==
    /\ pc = "loop"
    /\ call.op = "simulate_matchup"
    /\ trial < NSimulations
    /\ \E o1 \in simulate_roster_score(TeamById(call.team1).roster, DefaultRating),
          o2 \in simulate_roster_score(TeamById(call.team2).roster, DefaultRating) :
           IF o1.raised \/ o2.raised
           THEN /\ raised' = TRUE
                /\ pc' = "done"
                /\ UNCHANGED <<trial, team1_wins, scores>>
           ELSE /\ scores' = <<o1.value, o2.value>>
                /\ team1_wins' = TallyWin(team1_wins, o1.value, o2.value)
                /\ trial' = trial + 1
                /\ UNCHANGED <<raised, pc>>
    /\ UNCHANGED <<leagueVars, call, ret, season_wins, results, cursor, bracket>>

\* the return statement
MatchupReturn ==
    /\ pc = "loop"
    /\ call.op = "simulate_matchup"
    /\ trial = NSimulations
    /\ ret' = WinProbabilities(team1_wins, NSimulations)
    /\ pc' = "done"
    /\ UNCHANGED <<leagueVars, call, raised, locals>>

NextMatchup == MatchupTrial \/ MatchupReturn

SpecMatchup == InitMatchup /\ [][NextMatchup]_vars

MatchupReturned == pc = "done" /\ call.op = "simulate_matchup" /\ ~raised

\* C1: in the result of simulate_matchup the two win probabilities add up to
\* 100 and each lies in [0, 100]: each of the n trials was tallied for
\* exactly one team (team1's share is team1_wins / n, team2's the rest).
MatchupProbabilitiesSumTo100 ==
    /\ (pc = "loop" /\ call.op = "simulate_matchup") =>
           (0 <= team1_wins /\ team1_wins <= trial /\ trial <= NSimulations)
    /\ MatchupReturned =>
           LET p1 == ret.team1_win_probability
               p2 == ret.team2_win_probability
               n == NSimulations
           IN /\ trial = n
              /\ p1[2] > 0 /\ p2[2] > 0
              /\ p1[1] * p2[2] + p2[1] * p1[2] = 100 * p1[2] * p2[2]
              /\ 0 <= p1[1] /\ p1[1] <= 100 * p1[2]
              /\ 0 <= p2[1] /\ p2[1] <= 100 * p2[2]
              /\ p1[1] * n = 100 * team1_wins * p1[2]
              /\ p2[1] * n = 100 * (n - team1_wins) * p2[2]

\* a matchup of several trials in which each team won at least one
MatchupBothTeamsWon ==
    MatchupReturned /\ 0 < team1_wins /\ team1_wins < trial

(***************************************************************************)
(* _simulate_playoff_bracket                                               *)
(***************************************************************************)
\* a call that ended by an exception, where the value would be a list
RaiseList == [raised |-> TRUE, value |-> <<>>]

\* "winner = teams[i] if score1 > score2 else teams[i+1]"
BracketWinnerBySeed(id1, id2, score1, score2) ==
    IF score1 > score2 THEN id1 ELSE id1 + 1

BracketWinner(id1, id2, score1, score2) ==
    IF score1 > score2 THEN id1 ELSE id2

\* one pairing: both teams are looked up and scored, the winner's id is kept
BracketGame(id1, id2) ==
    {IF o1.raised \/ o2.raised THEN Raise
     ELSE Returned(BracketWinner(id1, id2, o1.value, o2.value)) :
         o1 \in simulate_roster_score(TeamById(id1).roster, DefaultRating),
         o2 \in simulate_roster_score(TeamById(id2).roster, DefaultRating)}

\* "for i in range(0, len(teams), 2)": the lists "winners" one round can
\* build; the last team of an odd list is appended without a game
RECURSIVE PlayRound(_)
PlayRound(ts) ==
    IF ts = <<>> THEN {Returned(<<>>)}
    ELSE IF Len(ts) = 1 THEN {Returned(<<ts[1]>>)}
    ELSE {IF g.raised \/ r.raised THEN RaiseList
          ELSE Returned(<<g.value>> \o r.value) :
              g \in BracketGame(ts[1], ts[2]),
              r \in PlayRound(SubSeq(ts, 3, Len(ts)))}

\* the whole call: every champion the bracket can return, or the exception
RECURSIVE _simulate_playoff_bracket(_)
_simulate_playoff_bracket(ids) ==
    IF Len(ids) = 0 THEN {Raise}
    ELSE IF Len(ids) = 1 THEN {Returned(ids[1])}
    ELSE UNION {IF r.raised THEN {Raise} ELSE _simulate_playoff_bracket(r.value) :
                   r \in PlayRound(ids)}

BracketTeams == 3

\* the rosters of a bracket team: empty, a positive mean, a negative mean
BracketRosters(id) ==
    {r \in LeagueRosters(id) :
        r = <<>> \/ (r[1].avg_points = Num(-1) /\ r[1].projected_avg_points = Num(0))
                 \/ (r[1].avg_points = Num(1) /\ r[1].projected_avg_points = Num(LeagueMaxPoints))}

\* the non-empty lists of distinct league team ids
IdLists(n) ==
    UNION {{l \in [1..k -> 1..n] : \A i, j \in 1..k : i # j => l[i] # l[j]} : k \in 1..n}

InitBracket ==
    /\ n_components = ConfiguredComponents
    /\ cache = <<>>
    /\ NoRatings
    /\ \E rs \in [1..BracketTeams -> UNION {BracketRosters(i) : i \in 1..BracketTeams}] :
           /\ \A i \in 1..BracketTeams : rs[i] \in BracketRosters(i)
           /\ teams = [i \in 1..BracketTeams |-> Team(i, rs[i], 0, <<>>)]
    /\ current_week = 0
    /\ playoff_team_count = 0
    /\ num_simulations = 1
    /\ use_gmm = FALSE
    /\ models = {}
    /\ player_states = <<>>
    /\ pc = "bracket"
    /\ \E ids \in IdLists(BracketTeams) :
           /\ call = [op |-> "_simulate_playoff_bracket", playoff_team_ids |-> ids]
           /\ bracket = ids
    /\ ret = 0
    /\ raised = FALSE
    /\ trial = 0
    /\ team1_wins = 0
    /\ scores = <<0, 0>>
    /\ season_wins = <<>>
    /\ results = <<>>
    /\ cursor = 0

\* one pass of "while len(teams) > 1"
BracketRound ==
    /\ pc = "bracket"
    /\ call.op = "_simulate_playoff_bracket"
    /\ Len(bracket) > 1
    /\ \E o \in PlayRound(bracket) :
           /\ raised' = o.raised
           /\ pc' = IF o.raised THEN "done" ELSE pc
           /\ bracket' = IF o.raised THEN bracket ELSE o.value
    /\ UNCHANGED <<leagueVars, call, ret, trial, team1_wins, scores,
                   season_wins, results, cursor>>

\* "return teams[0]"
BracketReturn ==
    /\ pc = "bracket"
    /\ call.op = "_simulate_playoff_bracket"
    /\ Len(bracket) <= 1
    /\ IF bracket = <<>>
       THEN raised' = TRUE /\ ret' = ret
       ELSE ret' = bracket[1] /\ raised' = raised
    /\ pc' = "done"
    /\ UNCHANGED <<leagueVars, call, locals>>

NextBracket == BracketRound \/ BracketReturn

SpecBracket == InitBracket /\ [][NextBracket]_vars

TeamIds == [i \in 1..Len(teams) |-> teams[i].team_id]

\* "next((t for t in self.league.teams if t.team_id == opponent), None)"
HasTeam(id) == \E i \in 1..Len(teams) : teams[i].team_id = id

\* the two nested loops "for team in self.league.teams: for week_idx, opponent
\* in enumerate(team.schedule[self.league.current_week:])" as the list of the
\* <<team_id, opponent>> entries they visit, in order
RECURSIVE ScheduleWalk(_)
ScheduleWalk(n) ==
    IF n = 0 THEN <<>>
    ELSE LET rest == Drop(teams[n].schedule, current_week)
         IN ScheduleWalk(n - 1) \o
            [k \in 1..Len(rest) |-> <<teams[n].team_id, rest[k]>>]

\* "if opponent_team and opponent_team.team_id != team.team_id"
IsPlayed(entry) == HasTeam(entry[2]) /\ entry[2] # entry[1]

\* "if team_score > opp_score: season_wins[team.team_id] += 1"
SeasonGameWon(team_score, opp_score) == team_score > opp_score

\* one walked entry: whether the walking team won, or the exception
SeasonGame(entry) ==
    {IF o1.raised \/ o2.raised THEN Raise
     ELSE Returned(IF SeasonGameWon(o1.value, o2.value) THEN 1 ELSE 0) :
         o1 \in simulate_roster_score(TeamById(entry[1]).roster, DefaultRating),
         o2 \in simulate_roster_score(TeamById(entry[2]).roster, DefaultRating)}

\* "results = {team.team_id: {...} for team in self.league.teams}"
InitialResults ==
    [id \in SeqToSet(TeamIds) |->
        [current_wins |-> TeamById(id).wins, projected_wins |-> 0,
         playoff_odds |-> 0, championship_odds |-> 0]]

\* "season_wins = {team.team_id: team.wins for team in self.league.teams}"
StartWinsFromZero == [id \in SeqToSet(TeamIds) |-> 0]

\* never used by the model: a trial that goes on from the wins of the trial
\* before it
StartWinsCarried == IF season_wins = <<>>
                    THEN [id \in SeqToSet(TeamIds) |-> TeamById(id).wins]
                    ELSE season_wins

StartWins == [id \in SeqToSet(TeamIds) |-> TeamById(id).wins]

\* sorted(season_wins.items(), key=lambda x: x[1], reverse=True): stable, so
\* equal win totals keep the league order
RECURSIVE InsertByWins(_, _, _)
InsertByWins(sorted, id, wins) ==
    IF sorted = <<>> THEN <<id>>
    ELSE IF wins[Head(sorted)] >= wins[id]
         THEN <<Head(sorted)>> \o InsertByWins(Tail(sorted), id, wins)
         ELSE <<id>> \o sorted

RECURSIVE SortByWins(_, _)
SortByWins(ids, wins) ==
    IF ids = <<>> THEN <<>>
    ELSE InsertByWins(SortByWins(SubSeq(ids, 1, Len(ids) - 1), wins), ids[Len(ids)], wins)

\* "playoff_teams = [tid for tid, _ in sorted_teams[:playoff_team_count]]"
PlayoffTeams(wins) == Take(SortByWins(TeamIds, wins), playoff_team_count)

\* "Record wins", "Record playoff appearances" and the championship of one trial
RecordTrial(res, wins, playoff_teams, champ) ==
    [id \in DOMAIN res |->
        [current_wins |-> res[id].current_wins,
         projected_wins |-> res[id].projected_wins + wins[id],
         playoff_odds |-> res[id].playoff_odds + (IF In(id, playoff_teams) THEN 1 ELSE 0),
         championship_odds |-> res[id].championship_odds + (IF id = champ THEN 1 ELSE 0)]]

\* no champion this trial (fewer than two playoff teams)
NoChampion == 0

\* "Convert to averages and percentages": quotients <<a, b>>
ConvertResults(res, n) ==
    [id \in DOMAIN res |->
        [current_wins |-> res[id].current_wins,
         projected_wins |-> <<res[id].projected_wins, n>>,
         playoff_odds |-> <<res[id].playoff_odds * 100, n>>,
         championship_odds |-> <<res[id].championship_odds * 100, n>>]]

SeasonMaxSims == 2
SeasonWeeks == 1
\* the schedule entry of a week without a game: no team has this id
ByeWeek == 0

\* the recorded wins of the league's teams
SeasonRecords == {<<0, 0, 0>>, <<1, 0, 1>>}

\* the schedules of a league whose teams 1 and 2 meet or rest each week, and
\* whose other teams are scheduled against themselves
SeasonSchedules(n) ==
    {[i \in 1..n |-> [w \in 1..SeasonWeeks |->
          IF i > 2 THEN i ELSE IF plays[w] THEN 3 - i ELSE ByeWeek]] :
        plays \in [1..SeasonWeeks -> BOOLEAN]}

InitSeason ==
    /\ n_components = ConfiguredComponents
    /\ cache = <<>>
    /\ NoRatings
    /\ \E n \in 2..3, r1 \in BracketRosters(1), r2 \in BracketRosters(2),
          rec \in SeasonRecords :
       \E sch \in SeasonSchedules(n) :
           teams = [i \in 1..n |->
                       Team(i, IF i = 1 THEN r1 ELSE IF i = 2 THEN r2 ELSE <<>>,
                            rec[i], sch[i])]
    /\ current_week \in 0..1
    /\ playoff_team_count \in 1..3
    /\ num_simulations \in 1..SeasonMaxSims
    /\ use_gmm = FALSE
    /\ models = {}
    /\ player_states = <<>>
    /\ pc = "trial"
    /\ call = [op |-> "simulate_season_rest_of_season"]
    /\ ret = 0
    /\ raised = FALSE
    /\ trial = 0
    /\ team1_wins = 0
    /\ scores = <<0, 0>>
    /\ season_wins = <<>>
    /\ results = InitialResults
    /\ cursor = 0
    /\ bracket = <<>>

\* the top of "for _ in range(self.num_simulations)"
SeasonTrialStart ==
    /\ pc = "trial"
    /\ call.op = "simulate_season_rest_of_season"
    /\ trial < num_simulations
    /\ season_wins' = StartWins
    /\ cursor' = 0
    /\ pc' = "games"
    /\ UNCHANGED <<leagueVars, call, ret, raised, trial, team1_wins, scores,
                   results, bracket>>

\* one pass of the inner loop over the remaining schedule
SeasonWalk ==
    /\ pc = "games"
    /\ cursor < Len(ScheduleWalk(Len(teams)))
    /\ LET entry == ScheduleWalk(Len(teams))[cursor + 1]
       IN IF IsPlayed(entry)
          THEN \E o \in SeasonGame(entry) :
                   /\ raised' = o.raised
                   /\ pc' = IF o.raised THEN "done" ELSE pc
                   /\ cursor' = IF o.raised THEN cursor ELSE cursor + 1
                   /\ season_wins' = IF o.raised THEN season_wins
                                     ELSE [season_wins EXCEPT ![entry[1]] = @ + o.value]
          ELSE /\ cursor' = cursor + 1
               /\ UNCHANGED <<raised, pc, season_wins>>
    /\ UNCHANGED <<leagueVars, call, ret, trial, team1_wins, scores, results, bracket>>

\* the rest of the trial: playoff teams, the records, the bracket
SeasonPlayoffs ==
    /\ pc = "games"
    /\ cursor = Len(ScheduleWalk(Len(teams)))
    /\ LET playoff_teams == PlayoffTeams(season_wins)
       IN IF Len(playoff_teams) >= 2
          THEN \E o \in _simulate_playoff_bracket(playoff_teams) :
                   /\ raised' = o.raised
                   /\ pc' = IF o.raised THEN "done" ELSE "trial"
                   /\ trial' = IF o.raised THEN trial ELSE trial + 1
                   /\ results' = RecordTrial(results, season_wins, playoff_teams,
                                             IF o.raised THEN NoChampion ELSE o.value)
          ELSE /\ results' = RecordTrial(results, season_wins, playoff_teams, NoChampion)
               /\ trial' = trial + 1
               /\ pc' = "trial"
               /\ UNCHANGED raised
    /\ UNCHANGED <<leagueVars, call, ret, team1_wins, scores, season_wins,
                   cursor, bracket>>

\* after the last trial: the conversion and "return results"
SeasonReturn ==
    /\ pc = "trial"
    /\ call.op = "simulate_season_rest_of_season"
    /\ trial = num_simulations
    /\ results' = ConvertResults(results, num_simulations)
    /\ ret' = results'
    /\ pc' = "done"
    /\ UNCHANGED <<leagueVars, call, raised, trial, team1_wins, scores,
                   season_wins, cursor, bracket>>

NextSeason == SeasonTrialStart \/ SeasonWalk \/ SeasonPlayoffs \/ SeasonReturn

SpecSeason == InitSeason /\ [][NextSeason]_vars

\* the wins one trial has added to the recorded wins, over all teams
WinsAdded == SumSeq([i \in 1..Len(teams) |->
                        season_wins[teams[i].team_id] - teams[i].wins])

\* the unplayed matchups of the league: a week and the two teams that meet
UnplayedMatchups ==
    {<<iw[2], {teams[iw[1]].team_id, teams[iw[1]].schedule[iw[2]]}>> :
        iw \in {x \in (1..Len(teams)) \X (1..SeasonWeeks) :
                   /\ x[2] > current_week
                   /\ IsPlayed(<<teams[x[1]].team_id, teams[x[1]].schedule[x[2]]>>)}}

\* the games the running trial has simulated so far
GamesSimulated ==
    Cardinality({k \in 1..cursor : IsPlayed(ScheduleWalk(Len(teams))[k])})

\* C4: in every season trial each unplayed matchup is simulated exactly once,
\* so the games simulated and the wins the trial adds over all teams both
\* equal the number of distinct unplayed matchups.
SeasonOneWinPerMatchup ==
    (pc = "games" /\ cursor = Len(ScheduleWalk(Len(teams)))) =>
        /\ GamesSimulated = Cardinality(UnplayedMatchups)
        /\ WinsAdded = Cardinality(UnplayedMatchups)

SeasonReturned ==
    pc = "done" /\ call.op = "simulate_season_rest_of_season" /\ ~raised

\* C5: the result holds one record per league team, and in every record
\* projected_wins (total / num_simulations) >= current_wins and both odds
\* (count / num_simulations * 100) lie in [0, 100].
SeasonRecordsInRange ==
    SeasonReturned =>
        /\ DOMAIN ret = SeqToSet(TeamIds)
        /\ \A id \in DOMAIN ret :
               LET r == ret[id]
               IN /\ r.current_wins = TeamById(id).wins
                  /\ r.projected_wins[2] = num_simulations
                  /\ r.playoff_odds[2] = num_simulations
                  /\ r.championship_odds[2] = num_simulations
                  /\ r.projected_wins[1] >= r.current_wins * r.projected_wins[2]
                  /\ 0 <= r.playoff_odds[1]
                  /\ r.playoff_odds[1] <= 100 * r.playoff_odds[2]
                  /\ 0 <= r.championship_odds[1]
                  /\ r.championship_odds[1] <= 100 * r.championship_odds[2]

\* a season of several trials in which a team with recorded wins gained
\* more, a team made the playoffs in some trials only, and a team won the
\* title in some trials only
SeasonMixedTrials ==
    /\ SeasonReturned
    /\ num_simulations > 1
    /\ \E id \in DOMAIN ret :
           /\ ret[id].current_wins > 0
           /\ ret[id].projected_wins[1] > ret[id].current_wins * num_simulations
    /\ \E id \in DOMAIN ret :
           /\ 0 < ret[id].playoff_odds[1]
           /\ ret[id].playoff_odds[1] < 100 * num_simulations
    /\ \E id \in DOMAIN ret :
           /\ 0 < ret[id].championship_odds[1]
           /\ ret[id].championship_odds[1] < 100 * num_simulations

(***************************************************************************)
(* recommend_free_agents                                                   *)
(***************************************************************************)
\* 'None (roster expansion)': the recommendation names no drop candidate
NoDrop == 0

\* "drop_candidate = min(position_players, key=...)"
DropCandidateBest(position_players) == MaxByValue(position_players)

DropCandidate(position_players) == MinByValue(position_players)

\* "if positions and fa.position not in positions: continue"
PositionSkipped(fa, positions) ==
    positions # None /\ positions.v # <<>> /\ ~In(fa.position, positions.v)

\* value_added of one candidate, in tenths:
\* (fa_value - drop_value) * 1.0, or fa_value * 0.5 on a new position
ValueAdded(fa, roster) ==
    LET position_players == SelectSeq(roster, LAMBDA p : p.position = fa.position)
    IN IF position_players = <<>>
       THEN 5 * PlayerValue(fa)
       ELSE 10 * (PlayerValue(fa) - PlayerValue(DropCandidate(position_players)))

\* 'HIGH' if value_added > 3 else 'MEDIUM' if value_added > 1 else 'LOW'
Priority(value_added) ==
    IF value_added > 30 THEN "HIGH"
    ELSE IF value_added > 10 THEN "MEDIUM" ELSE "LOW"

\* the dict appended for one candidate
Recommendation(fa, roster) ==
    LET position_players == SelectSeq(roster, LAMBDA p : p.position = fa.position)
        drop == IF position_players = <<>> THEN NoDrop
                ELSE DropCandidate(position_players).playerId
    IN [player |-> fa,
        position |-> fa.position,
        value_added |-> ValueAdded(fa, roster),
        drop_candidate |-> drop,
        fa_projected_avg |-> PlayerValue(fa),
        drop_projected_avg |-> IF position_players = <<>> THEN 0
                               ELSE PlayerValue(DropCandidate(position_players)),
        priority |-> Priority(ValueAdded(fa, roster))]

\* the loop "for fa in free_agents": the list "recommendations" it builds
RECURSIVE CollectRecommendations(_, _, _)
CollectRecommendations(free_agents, roster, positions) ==
    IF free_agents = <<>> THEN <<>>
    ELSE LET fa == free_agents[Len(free_agents)]
             before == CollectRecommendations(
                           SubSeq(free_agents, 1, Len(free_agents) - 1), roster, positions)
         IN IF ~PositionSkipped(fa, positions) /\ ValueAdded(fa, roster) > 0
            THEN Append(before, Recommendation(fa, roster))
            ELSE before

\* recommendations.sort(key=lambda x: x['value_added'], reverse=True)
RECURSIVE InsertRecommendation(_, _)
InsertRecommendation(sorted, r) ==
    IF sorted = <<>> THEN <<r>>
    ELSE IF Head(sorted).value_added >= r.value_added
         THEN <<Head(sorted)>> \o InsertRecommendation(Tail(sorted), r)
         ELSE <<r>> \o sorted

RECURSIVE SortRecommendations(_)
SortRecommendations(recs) ==
    IF recs = <<>> THEN <<>>
    ELSE InsertRecommendation(SortRecommendations(SubSeq(recs, 1, Len(recs) - 1)),
                              recs[Len(recs)])

\* the list the call returns: sorted, then "recommendations[:top_n]"
TruncateUnsorted(recs, top_n) == Take(recs, top_n)

SortAndTruncate(recs, top_n) == Take(SortRecommendations(recs), top_n)

recommend_free_agents(roster, free_agents, top_n, positions) ==
    SortAndTruncate(CollectRecommendations(free_agents, roster, positions), top_n)

\* str.upper() on the injury statuses of the model
Upper(status) ==
    CASE status \in {"out", "Out", "OUT"} -> "OUT"
      [] status \in {"active", "ACTIVE"} -> "ACTIVE"
      [] status \in {"normal", "NORMAL"} -> "NORMAL"
      [] status \in {"questionable", "QUESTIONABLE"} -> "QUESTIONABLE"
      [] OTHER -> status

\* "if injury_status and injury_status.upper() not in
\*  ['ACTIVE', 'NORMAL', '', None]": the player is filtered out
InjuryFiltered(status) ==
    /\ status # StatusNone
    /\ status # ""
    /\ Upper(status) \notin {"ACTIVE", "NORMAL", ""}

\* the keyword exclude_injured was not passed
KeywordUnset == "unset"

FaMaxRoster == 2
FaMaxAgents == 2
FaMaxPoints == 2

\* my_team's players: running backs, valued by projection or, when the
\* projection is 0, by the average
FaRosters ==
    UNION {[1..n -> {Player(0, "RB", Num(proj), Num(1), SlotAbsent, StatusNone) :
                        proj \in 0..FaMaxPoints}] : n \in 0..FaMaxRoster}

\* the free agents: running backs and wide receivers, projected up to
\* one point above the roster's players
FaCandidates(statuses) ==
    UNION {[1..n -> {Player(0, pos, Num(proj), Num(1), SlotAbsent, st) :
                        pos \in {"RB", "WR"}, proj \in 1..(FaMaxPoints + 1),
                        st \in statuses}] :
              n \in 0..FaMaxAgents}

\* the players of a list numbered from base + 1 on
Numbered(players, base) ==
    [i \in 1..Len(players) |-> [players[i] EXCEPT !.playerId = base + i]]

InitRecommend(statuses, keywords) ==
    /\ n_components = ConfiguredComponents
    /\ cache = <<>>
    /\ NoRatings
    /\ \E r \in FaRosters : teams = <<Team(1, Numbered(r, 0), 0, <<>>)>>
    /\ current_week = 0
    /\ playoff_team_count = 0
    /\ num_simulations = 1
    /\ use_gmm = FALSE
    /\ models = {}
    /\ player_states = <<>>
    /\ pc = "start"
    /\ \E fas \in FaCandidates(statuses), n \in 0..FaMaxAgents,
          ps \in {None, Num(<<"RB">>)}, kw \in keywords :
           call = [op |-> "recommend_free_agents", my_team |-> 1,
                   free_agents |-> Numbered(fas, 100), top_n |-> n,
                   positions |-> ps, exclude_injured |-> kw]
    /\ ret = <<>>
    /\ raised = FALSE
    /\ NoLocals

InitFreeAgents == InitRecommend({StatusNone}, {KeywordUnset})

InitInjury ==
    InitRecommend({StatusNone, "active", "Out"},
                  {KeywordUnset, "True", "False"})

\* the call; the signature has no parameter exclude_injured, so passing the
\* keyword is a TypeError
RecommendFreeAgents ==
    /\ pc = "start"
    /\ call.op = "recommend_free_agents"
    /\ IF call.exclude_injured # KeywordUnset
       THEN raised' = TRUE /\ ret' = ret
       ELSE /\ ret' = recommend_free_agents(TeamById(call.my_team).roster,
                                            call.free_agents, call.top_n, call.positions)
            /\ raised' = raised
    /\ pc' = "done"
    /\ UNCHANGED <<leagueVars, call, locals>>

NextFreeAgents == RecommendFreeAgents

SpecFreeAgents == InitFreeAgents /\ [][NextFreeAgents]_vars

SpecInjury == InitInjury /\ [][NextFreeAgents]_vars

RecommendReturned == pc = "done" /\ call.op = "recommend_free_agents" /\ ~raised

\* C6: with exclude_injured=True (passed, or left to its documented default)
\* the call returns a list that holds no player whose injury status is,
\* case-insensitively, outside {none, empty, ACTIVE, NORMAL}.
NoInjuredRecommended ==
    (pc = "done" /\ call.op = "recommend_free_agents"
       /\ call.exclude_injured \in {"True", KeywordUnset}) =>
        /\ ~raised
        /\ \A i \in 1..Len(ret) : ~InjuryFiltered(ret[i].player.injuryStatus)

\* the candidates that pass the position filter with a positive value added
Qualifying ==
    {fa \in SeqToSet(call.free_agents) :
        /\ ~PositionSkipped(fa, call.positions)
        /\ ValueAdded(fa, TeamById(call.my_team).roster) > 0}

\* C7: the returned list is sorted by value_added in non-increasing order,
\* holds only candidates with value_added > 0, has length min(top_n, number
\* of qualifying candidates), and no omitted qualifying candidate has a
\* strictly higher value_added than a returned one.
RecommendationsAreTopN ==
    RecommendReturned =>
        /\ \A i \in 1..(Len(ret) - 1) : ret[i].value_added >= ret[i + 1].value_added
        /\ \A i \in 1..Len(ret) : ret[i].value_added > 0 /\ ret[i].player \in Qualifying
        /\ \A i, j \in 1..Len(ret) : i # j => ret[i].player # ret[j].player
        /\ Len(ret) = Min2(call.top_n, Cardinality(Qualifying))
        /\ \A fa \in Qualifying :
               (\A i \in 1..Len(ret) : ret[i].player # fa) =>
                   \A i \in 1..Len(ret) :
                       ValueAdded(fa, TeamById(call.my_team).roster) <= ret[i].value_added

\* a list cut to top_n whose first entry was not the first qualifying candidate
RecommendationsReorderedAndCut ==
    /\ RecommendReturned
    /\ Len(ret) >= 1
    /\ Len(ret) < Cardinality(Qualifying)
    /\ ret[1].player.playerId > 101

\* C8: value_added is the candidate's value minus the value of the
\* lowest-valued roster player of the candidate's position, who is the drop
\* candidate; with no roster player at the position there is no drop
\* candidate and value_added is half the candidate's value.
ValueAddedAgainstWeakest ==
    RecommendReturned =>
        \A i \in 1..Len(ret) :
            LET fa == ret[i].player
                same == {p \in SeqToSet(TeamById(call.my_team).roster) :
                            p.position = fa.position}
            IN IF same = {}
               THEN /\ ret[i].drop_candidate = NoDrop
                    /\ 2 * ret[i].value_added = 10 * PlayerValue(fa)
               ELSE \E d \in same :
                        /\ ret[i].drop_candidate = d.playerId
                        /\ \A q \in same : PlayerValue(d) <= PlayerValue(q)
                        /\ ret[i].value_added = 10 * (PlayerValue(fa) - PlayerValue(d))

\* a list with a roster expansion and with a replacement of the weaker of two
\* unequal roster players
RecommendationsOfBothKinds ==
    /\ RecommendReturned
    /\ \E i \in 1..Len(ret) : ret[i].drop_candidate = NoDrop
    /\ \E i \in 1..Len(ret) : ret[i].drop_candidate # NoDrop
    /\ \E p, q \in SeqToSet(TeamById(call.my_team).roster) :
           PlayerValue(p) # PlayerValue(q)

(***************************************************************************)
(* analyze_trade                                                           *)
(***************************************************************************)
\* the value of one player in _calculate_roster_value: the season average
\* of the player's state under use_gmm, else the projection or the average
RosterPlayerValue(p) ==
    IF use_gmm /\ p.playerId \in DOMAIN player_states
    THEN player_states[p.playerId]
    ELSE PlayerValue(p)

RECURSIVE SumValues(_)
SumValues(players) ==
    IF players = <<>> THEN 0
    ELSE RosterPlayerValue(Head(players)) + SumValues(Tail(players))

\* the starters alone
StarterValueOnly(roster) == 10 * SumValues(_get_optimal_lineup(roster))

\* starter_value + bench_value in tenths: starters count in full, the
\* bench "[p for p in roster if p not in starters]" at 0.3
_calculate_roster_value(roster) ==
    LET starters == _get_optimal_lineup(roster)
        bench == Without(roster, starters)
    IN 10 * SumValues(starters) + 3 * SumValues(bench)

_calculate_team_value(team) == _calculate_roster_value(team.roster)

\* "[p for p in team.roster if p not in given] + received"
RosterAfter(roster, given, received) == Without(roster, given) \o received

\* "asymmetric_advantage = my_value_change > their_value_change"
AsymmetricOrEqual(my_value_change, their_value_change) ==
    my_value_change >= their_value_change

AsymmetricAdvantage(my_value_change, their_value_change) ==
    my_value_change > their_value_change

\* "my_value_change / weeks_remaining if weeks_remaining > 0 else 0",
\* the quotient kept as <<numerator, denominator>>
PerWeekUndivided(my_value_change, weeks_remaining) == <<my_value_change, 1>>

PerWeekRate(my_value_change, weeks_remaining) ==
    IF weeks_remaining > 0 THEN <<my_value_change, weeks_remaining>> ELSE <<0, 1>>

\* the quotient without the cap at 100
ConfidenceUncapped(my_value_change, my_current_value) ==
    IF my_current_value > 0
    THEN <<10 * Abs(my_value_change), my_current_value>>
    ELSE <<0, 1>>

\* "min(100, abs(my_value_change) / (my_current_value / 10))
\*  if my_current_value > 0 else 0", as <<numerator, denominator>>
Confidence(my_value_change, my_current_value) ==
    IF my_current_value > 0
    THEN IF 10 * Abs(my_value_change) >= 100 * my_current_value
         THEN <<100, 1>>
         ELSE <<10 * Abs(my_value_change), my_current_value>>
    ELSE <<0, 1>>

analyze_trade(my_team, other_team, my_players, their_players, weeks_remaining) ==
    LET my_current_value == _calculate_team_value(my_team)
        their_current_value == _calculate_team_value(other_team)
        my_roster_after == RosterAfter(my_team.roster, my_players, their_players)
        their_roster_after == RosterAfter(other_team.roster, their_players, my_players)
        my_value_after == _calculate_roster_value(my_roster_after)
        their_value_after == _calculate_roster_value(their_roster_after)
        my_value_change == my_value_after - my_current_value
        their_value_change == their_value_after - their_current_value
    IN [my_value_change |-> my_value_change,
        their_value_change |-> their_value_change,
        asymmetric_advantage |-> AsymmetricAdvantage(my_value_change, their_value_change),
        advantage_margin |-> my_value_change - their_value_change,
        projected_points_added_per_week |-> PerWeekRate(my_value_change, weeks_remaining),
        total_projected_points_added |-> my_value_change,
        recommendation |-> IF my_value_change > 0 THEN "ACCEPT" ELSE "REJECT",
        confidence |-> Confidence(my_value_change, my_current_value)]

\* "weeks_remaining: int = 10"
DefaultWeeks == 10

TradeMaxPoints == 2
TradeMaxWeeks == 1
\* the season average of a player of the other team on a hot streak
TradeHotAverage == 12

\* quarterbacks projected 1..TradeMaxPoints and a running back
TradePlayers ==
    {Player(0, "QB", Num(proj), Num(1), SlotAbsent, StatusNone) :
        proj \in 1..TradeMaxPoints}
    \cup {Player(0, "RB", Num(1), Num(1), SlotAbsent, StatusNone)}

\* rosters of at most two players: two quarterbacks leave one on the bench
TradeRosters ==
    {<<>>} \cup {<<p>> : p \in TradePlayers}
           \cup {<<p, q>> : p \in TradePlayers, q \in TradePlayers}

\* the sublists of a list of at most two players
SubLists(s) ==
    {<<>>, s} \cup {<<s[i]>> : i \in 1..Len(s)}

InitTradeWith(keywords) ==
    /\ n_components = ConfiguredComponents
    /\ cache = <<>>
    /\ NoRatings
    /\ \E r1 \in TradeRosters, r2 \in TradeRosters :
           teams = <<Team(1, Numbered(r1, 0), 0, <<>>),
                     Team(2, Numbered(r2, 10), 0, <<>>)>>
    /\ current_week = 0
    /\ playoff_team_count = 0
    /\ num_simulations = 1
    /\ \/ use_gmm = FALSE /\ player_states = <<>>
       \/ use_gmm = TRUE /\ player_states = <<TradeMaxPoints + 1>>
       \/ use_gmm = TRUE /\ player_states = (11 :> TradeHotAverage)
    /\ models = {}
    /\ pc = "start"
    /\ \E mine \in SubLists(teams[1].roster), theirs \in SubLists(teams[2].roster),
          kw \in keywords :
           call = [op |-> "analyze_trade", my_team |-> 1, other_team |-> 2,
                   my_players |-> mine, their_players |-> theirs,
                   weeks_remaining |-> DefaultWeeks, use_ros |-> kw]
    /\ ret = <<>>
    /\ raised = FALSE
    /\ NoLocals

InitTrade == InitTradeWith({KeywordUnset})

\* calls that pass the keyword use_ros as well
InitRos == InitTradeWith({KeywordUnset, "True", "False"})

\* the call made with the arguments call': the signature has no parameter
\* use_ros, so passing the keyword is a TypeError
AnalyzeCall ==
    IF call'.use_ros # KeywordUnset
    THEN raised' = TRUE /\ ret' = ret /\ teams' = teams
    ELSE /\ ret' = analyze_trade(TeamById(call'.my_team), TeamById(call'.other_team),
                                 call'.my_players, call'.their_players,
                                 call'.weeks_remaining)
         /\ teams' = TeamsAfterLineups({call'.my_team, call'.other_team})
         /\ raised' = raised

\* the first call, with the default weeks_remaining
AnalyzeTrade ==
    /\ pc = "start"
    /\ call.op = "analyze_trade"
    /\ call' = call
    /\ AnalyzeCall
    /\ pc' = "done"
    /\ UNCHANGED <<settingVars, locals>>

\* the same trade analyzed again with another weeks_remaining
AnalyzeTradeAgain ==
    /\ pc = "done"
    /\ call.op = "analyze_trade"
    /\ \E w \in 0..TradeMaxWeeks :
           /\ w # call.weeks_remaining
           /\ call' = [call EXCEPT !.weeks_remaining = w]
    /\ AnalyzeCall
    /\ pc' = "done"
    /\ UNCHANGED <<settingVars, locals>>

NextTrade == AnalyzeTrade \/ AnalyzeTradeAgain

SpecTrade == InitTrade /\ [][NextTrade]_vars

SpecRos == InitRos /\ [][NextTrade]_vars

TradeReturned == pc = "done" /\ call.op = "analyze_trade" /\ ~raised

\* the roster values of the two sides before and after the swap, in tenths
TradeValues ==
    LET mine == TeamById(call.my_team).roster
        theirs == TeamById(call.other_team).roster
        kept(roster, given) ==
            SelectSeq(roster, LAMBDA p : \A i \in 1..Len(given) : given[i] # p)
    IN [my_before |-> _calculate_roster_value(mine),
        my_after |-> _calculate_roster_value(
                         kept(mine, call.my_players) \o call.their_players),
        their_before |-> _calculate_roster_value(theirs),
        their_after |-> _calculate_roster_value(
                            kept(theirs, call.their_players) \o call.my_players)]

\* C9: each side's value change is the value of its roster after the swap
\* minus the value of its current roster, advantage_margin is the difference
\* of the two changes, and asymmetric_advantage holds exactly when my change
\* is strictly greater than theirs.
TradeValueChanges ==
    TradeReturned =>
        /\ ret.my_value_change = TradeValues.my_after - TradeValues.my_before
        /\ ret.their_value_change = TradeValues.their_after - TradeValues.their_before
        /\ ret.advantage_margin = ret.my_value_change - ret.their_value_change
        /\ ret.asymmetric_advantage = (ret.my_value_change > ret.their_value_change)

\* a real swap that changes both sides by the same non-zero amount
TradeEqualChanges ==
    /\ TradeReturned
    /\ call.my_players # <<>>
    /\ call.their_players # <<>>
    /\ ret.my_value_change = ret.their_value_change
    /\ ret.my_value_change # 0
    /\ ~ret.asymmetric_advantage

TradeRateRatioLongOverShort ==
    [][(TradeReturned /\ TradeReturned'
          /\ call.weeks_remaining > call'.weeks_remaining
          /\ call'.weeks_remaining > 0
          /\ ret.my_value_change # 0) =>
            LET rL == ret.projected_points_added_per_week
                rS == ret'.projected_points_added_per_week
                L == call.weeks_remaining
                S == call'.weeks_remaining
            IN rL[1] * rS[2] * S = L * rL[2] * rS[1]]_vars

(***************************************************************************)
(* Specification SpecLineup: one call of _get_optimal_lineup or of         *)
(* _calculate_roster_value on a slice of a fourteen-player squad           *)
(***************************************************************************)
\* the roster of the test fixture: eight starters, then a bench RB and WR
StandardLayout == <<"QB", "RB", "RB", "WR", "WR", "TE", "K", "D/ST", "RB", "WR">>

\* the squad the rosters are cut from: the standard layout and four spares
SquadLayout == StandardLayout \o <<"QB", "TE", "K", "D/ST">>

\* the second RB and WR and the bench RB and WR take any value
VariedSlots == {3, 5, 9, 10}

LineupMaxPoints == 2

\* the squads: player i has avg_points vals[i]; projected_avg_points is not
\* set, or is set to the same number
Squads ==
    {[i \in 1..Len(SquadLayout) |->
         LET avg == IF i \in VariedSlots THEN vals[i] ELSE LineupMaxPoints
         IN Player(0, SquadLayout[i], IF set THEN Num(avg) ELSE Absent,
                   Num(avg), SlotAbsent, StatusNone)] :
        vals \in [VariedSlots -> 1..LineupMaxPoints], set \in BOOLEAN}

\* the rosters: the empty one and every contiguous slice of a squad
LineupRosters ==
    {<<>>} \cup {SubSeq(sq, a, b) : sq \in Squads,
                    a \in 1..Len(SquadLayout), b \in 1..Len(SquadLayout)}

InitLineup ==
    /\ n_components = ConfiguredComponents
    /\ cache = <<>>
    /\ NoRatings
    /\ \E r \in LineupRosters : teams = <<Team(1, Numbered(r, 0), 0, <<>>)>>
    /\ current_week = 0
    /\ playoff_team_count = 0
    /\ num_simulations = 1
    /\ \/ use_gmm = FALSE /\ player_states = <<>>
       \/ use_gmm = TRUE /\ player_states = <<LineupMaxPoints + 1>>
    /\ models = {}
    /\ pc = "start"
    /\ \E op \in {"_get_optimal_lineup", "_calculate_roster_value"} :
           call = [op |-> op, team |-> 1]
    /\ ret = <<>>
    /\ raised = FALSE
    /\ NoLocals

GetOptimalLineup ==
    /\ pc = "start"
    /\ call.op = "_get_optimal_lineup"
    /\ ret' = _get_optimal_lineup(TeamById(call.team).roster)
    /\ teams' = TeamsAfterLineups({call.team})
    /\ pc' = "done"
    /\ UNCHANGED <<settingVars, call, raised, locals>>

CalculateRosterValue ==
    /\ pc = "start"
    /\ call.op = "_calculate_roster_value"
    /\ ret' = _calculate_roster_value(TeamById(call.team).roster)
    /\ teams' = TeamsAfterLineups({call.team})
    /\ pc' = "done"
    /\ UNCHANGED <<settingVars, call, raised, locals>>

NextLineup == GetOptimalLineup \/ CalculateRosterValue

SpecLineup == InitLineup /\ [][NextLineup]_vars

ValueReturned == pc = "done" /\ call.op = "_calculate_roster_value" /\ ~raised

LineupReturned == pc = "done" /\ call.op = "_get_optimal_lineup" /\ ~raised

\* the number of players of a position in a list
CountAt(players, pos) ==
    Cardinality({i \in 1..Len(players) : players[i].position = pos})

\* C12: with the mixture model disabled, a roster in the standard layout
\* whose eight designated starters are the best at their positions is worth
\* the sum of the avg_points of the eight starters plus 0.3 times the sum of
\* the avg_points of the two bench players.
StandardRosterValue ==
    LET roster == TeamById(call.team).roster
    IN (/\ ValueReturned
        /\ ~use_gmm
        /\ [i \in 1..Len(roster) |-> roster[i].position] = StandardLayout
        /\ roster[3].avg_points.v >= roster[9].avg_points.v
        /\ roster[5].avg_points.v >= roster[10].avg_points.v) =>
           ret = 10 * SumSeq([i \in 1..8 |-> roster[i].avg_points.v])
                 + 3 * (roster[9].avg_points.v + roster[10].avg_points.v)

LineupWithinSlots ==
    LineupReturned =>
        LET roster == TeamById(call.team).roster
            extra(pos, n) == Max2(0, CountAt(ret, pos) - n)
            spare(pos, n) == Max2(0, CountAt(roster, pos) - n)
        IN /\ \A i \in 1..Len(ret) : \E j \in 1..Len(roster) : roster[j] = ret[i]
           /\ \A i, j \in 1..Len(ret) : i # j => ret[i] # ret[j]
           /\ \A i \in 1..Len(ret) :
                  ret[i].position \in {"QB", "RB", "WR", "TE", "K", "D/ST"}
           /\ CountAt(ret, "QB") <= 1 /\ CountAt(ret, "K") <= 1
           /\ CountAt(ret, "D/ST") <= 1
           /\ extra("RB", 2) + extra("WR", 2) + extra("TE", 1) <= 1
           /\ Len(ret) <= 9
           /\ \A s \in 1..Len(RequiredSlots) :
                  CountAt(ret, RequiredSlots[s][1]) >=
                      Min2(RequiredSlots[s][2], CountAt(roster, RequiredSlots[s][1]))
           /\ (spare("RB", 2) + spare("WR", 2) + spare("TE", 1) > 0) =>
                  extra("RB", 2) + extra("WR", 2) + extra("TE", 1) = 1
           /\ roster = <<>> => ret = <<>>

\* a roster of nine or more with no quarterback: the QB slot stays empty
\* and the other eight are filled
LineupLeavesSlotUnfilled ==
    /\ LineupReturned
    /\ CountAt(TeamById(call.team).roster, "QB") = 0
    /\ Len(TeamById(call.team).roster) >= 9
    /\ Len(ret) = 8

(***************************************************************************)
(* find_trade_opportunities                                                *)
(***************************************************************************)
\* "if my_player.position == their_player.position: ... if abs(my_val -
\*  their_val) < 1.0: continue"
BoringTrade(my_player, their_player) ==
    /\ my_player.position = their_player.position
    /\ Abs(PlayerValue(my_player) - PlayerValue(their_player)) < 1

\* the dict appended to team_trades (players and teams by their ids)
Opportunity(my_team, other_team, give, receive) ==
    [other_team |-> other_team.team_id,
     give |-> [i \in 1..Len(give) |-> give[i].playerId],
     receive |-> [i \in 1..Len(receive) |-> receive[i].playerId],
     analysis |-> analyze_trade(my_team, other_team, give, receive, DefaultWeeks)]

\* "if analysis['my_value_change'] > min_advantage and
\*  analysis['asymmetric_advantage']", min_advantage in tenths
ClearsMinAdvantage(analysis, min_advantage) ==
    analysis.my_value_change > min_advantage /\ analysis.asymmetric_advantage

\* the 1-for-1 loop: my_player outer, their_player inner
OneForOneTrades(my_team, other_team, min_advantage) ==
    LET m == Len(my_team.roster)
        n == Len(other_team.roster)
        pairs == [k \in 1..(m * n) |->
                     [mine |-> my_team.roster[((k - 1) \div n) + 1],
                      theirs |-> other_team.roster[((k - 1) % n) + 1]]]
        kept == SelectSeq(pairs, LAMBDA c : ~BoringTrade(c.mine, c.theirs))
        all == [k \in 1..Len(kept) |->
                   Opportunity(my_team, other_team, <<kept[k].mine>>, <<kept[k].theirs>>)]
    IN SelectSeq(all, LAMBDA o : ClearsMinAdvantage(o.analysis, min_advantage))

\* the 2-for-1 loop: their_player outer, then my_player1, then the later
\* my_player2
TwoForOneTrades(my_team, other_team, min_advantage) ==
    LET m == Len(my_team.roster)
        n == Len(other_team.roster)
        triples == [k \in 1..(n * m * m) |->
                       [t |-> ((k - 1) \div (m * m)) + 1,
                        i |-> (((k - 1) \div m) % m) + 1,
                        j |-> ((k - 1) % m) + 1]]
        kept == SelectSeq(triples, LAMBDA c : c.j > c.i)
        all == [k \in 1..Len(kept) |->
                   Opportunity(my_team, other_team,
                               <<my_team.roster[kept[k].i], my_team.roster[kept[k].j]>>,
                               <<other_team.roster[kept[k].t]>>)]
    IN SelectSeq(all, LAMBDA o : ClearsMinAdvantage(o.analysis, min_advantage))

\* list.sort(key=lambda x: x['analysis']['advantage_margin'], reverse=True)
RECURSIVE InsertByMargin(_, _)
InsertByMargin(sorted, o) ==
    IF sorted = <<>> THEN <<o>>
    ELSE IF Head(sorted).analysis.advantage_margin >= o.analysis.advantage_margin
         THEN <<Head(sorted)>> \o InsertByMargin(Tail(sorted), o)
         ELSE <<o>> \o sorted

RECURSIVE SortByMargin(_)
SortByMargin(s) ==
    IF s = <<>> THEN <<>>
    ELSE InsertByMargin(SortByMargin(SubSeq(s, 1, Len(s) - 1)), s[Len(s)])

\* the trades kept for one opponent: "team_trades[:max_trades_per_team]"
AllTeamTrades(team_trades, max_trades_per_team) == SortByMargin(team_trades)

TopTeamTrades(team_trades, max_trades_per_team) ==
    Take(SortByMargin(team_trades), max_trades_per_team)

\* the loop "for other_team in self.league.teams" over the first n teams
RECURSIVE CollectOpportunities(_, _, _, _)
CollectOpportunities(my_team, n, min_advantage, max_trades_per_team) ==
    IF n = 0 THEN <<>>
    ELSE LET before == CollectOpportunities(my_team, n - 1, min_advantage,
                                            max_trades_per_team)
             other_team == teams[n]
         IN IF other_team.team_id = my_team.team_id THEN before
            ELSE before \o TopTeamTrades(
                     OneForOneTrades(my_team, other_team, min_advantage)
                         \o TwoForOneTrades(my_team, other_team, min_advantage),
                     max_trades_per_team)

find_trade_opportunities(my_team, min_advantage, max_trades_per_team) ==
    SortByMargin(CollectOpportunities(my_team, Len(teams), min_advantage,
                                      max_trades_per_team))

OppMaxPoints == 2
OppMaxTrades == 3

\* min_advantage in tenths: 0 and 1.5 points
OppMinAdvantages == {0, 15}

\* quarterbacks projected 1..OppMaxPoints and a kicker projected OppMaxPoints
OppPlayers ==
    {Player(0, "QB", Num(proj), Num(1), SlotAbsent, StatusNone) :
        proj \in 1..OppMaxPoints}
    \cup {Player(0, "K", Num(OppMaxPoints), Num(1), SlotAbsent, StatusNone)}

OppRosters ==
    {<<>>} \cup {<<p>> : p \in OppPlayers}
           \cup {<<p, q>> : p \in OppPlayers, q \in OppPlayers}

\* the rosters of the team listed before my_team, when there is one
OppFirstRosters ==
    {<<>>, <<Player(0, "QB", Num(OppMaxPoints), Num(1), SlotAbsent, StatusNone)>>,
     <<Player(0, "K", Num(OppMaxPoints), Num(1), SlotAbsent, StatusNone),
       Player(0, "K", Num(OppMaxPoints), Num(1), SlotAbsent, StatusNone)>>}

InitOpportunities ==
    /\ n_components = ConfiguredComponents
    /\ cache = <<>>
    /\ NoRatings
    /\ \E mine \in OppRosters, r2 \in OppRosters :
           \/ teams = <<Team(1, Numbered(mine, 0), 0, <<>>),
                        Team(2, Numbered(r2, 10), 0, <<>>)>>
           \/ \E r3 \in OppFirstRosters :
                  teams = <<Team(3, Numbered(r3, 20), 0, <<>>),
                            Team(1, Numbered(mine, 0), 0, <<>>),
                            Team(2, Numbered(r2, 10), 0, <<>>)>>
    /\ current_week = 0
    /\ playoff_team_count = 0
    /\ num_simulations = 1
    /\ use_gmm = FALSE
    /\ player_states = <<>>
    /\ models = {}
    /\ pc = "start"
    /\ \E a \in OppMinAdvantages, k \in 0..OppMaxTrades :
           call = [op |-> "find_trade_opportunities", my_team |-> 1,
                   min_advantage |-> a, max_trades_per_team |-> k]
    /\ ret = <<>>
    /\ raised = FALSE
    /\ NoLocals

FindTradeOpportunities ==
    /\ pc = "start"
    /\ call.op = "find_trade_opportunities"
    /\ ret' = find_trade_opportunities(TeamById(call.my_team), call.min_advantage,
                                       call.max_trades_per_team)
    /\ teams' = TeamsAfterLineups({teams[i].team_id : i \in 1..Len(teams)})
    /\ pc' = "done"
    /\ UNCHANGED <<settingVars, call, raised, locals>>

NextOpportunities == FindTradeOpportunities

SpecOpportunities == InitOpportunities /\ [][NextOpportunities]_vars

OpportunitiesReturned ==
    pc = "done" /\ call.op = "find_trade_opportunities" /\ ~raised

\* the trades with one opponent: one or two of my players, in roster order,
\* for one of theirs
CandidateTrades(other_team) ==
    LET me == TeamById(call.my_team)
        m == Len(me.roster)
        gives == {<<me.roster[i]>> : i \in 1..m}
                 \cup {<<me.roster[i], me.roster[j]>> : i \in 1..m, j \in 1..m}
    IN {Opportunity(me, other_team, g, <<other_team.roster[t]>>) :
           g \in {h \in gives : Len(h) = 2 => h[1].playerId < h[2].playerId},
           t \in 1..Len(other_team.roster)}

\* the candidates that qualify: not a 1-for-1 swap of equally valued players
\* of one position, my value change above min_advantage, and asymmetric
KeptTrades(other_team) ==
    LET me == TeamById(call.my_team)
        player(id) == CHOOSE p \in SeqToSet(me.roster) \cup SeqToSet(other_team.roster) :
                          p.playerId = id
    IN {o \in CandidateTrades(other_team) :
           /\ o.analysis.my_value_change > call.min_advantage
           /\ o.analysis.my_value_change > o.analysis.their_value_change
           /\ Len(o.give) = 1 =>
                  ~(/\ player(o.give[1]).position = player(o.receive[1]).position
                    /\ PlayerValue(player(o.give[1])) = PlayerValue(player(o.receive[1])))}

ReturnedFor(other_team) ==
    {ret[i] : i \in {j \in 1..Len(ret) : ret[j].other_team = other_team.team_id}}

Opponents == {teams[i] : i \in {j \in 1..Len(teams) : teams[j].team_id # call.my_team}}

\* C13: every returned opportunity is a trade with another team that gives
\* one or two of my players for one of theirs and is asymmetric; per opponent
\* the call returns min(max_trades_per_team, number of kept trades) trades,
\* none of them with a lower margin than a kept trade it leaves out; and the
\* whole list is sorted by advantage_margin in non-increasing order.
OpportunitiesCappedAndSorted ==
    OpportunitiesReturned =>
        /\ \A i \in 1..Len(ret) :
               /\ ret[i].other_team # call.my_team
               /\ \E t \in Opponents : ret[i] \in KeptTrades(t)
               /\ Len(ret[i].give) \in {1, 2}
               /\ Len(ret[i].receive) = 1
               /\ ret[i].analysis.asymmetric_advantage
        /\ \A i, j \in 1..Len(ret) : i # j => ret[i] # ret[j]
        /\ \A t \in Opponents :
               /\ Cardinality(ReturnedFor(t)) =
                      Min2(call.max_trades_per_team, Cardinality(KeptTrades(t)))
               /\ \A q \in KeptTrades(t) \ ReturnedFor(t) :
                      \A r \in ReturnedFor(t) :
                          q.analysis.advantage_margin <= r.analysis.advantage_margin
        /\ \A i \in 1..(Len(ret) - 1) :
               ret[i].analysis.advantage_margin >= ret[i + 1].analysis.advantage_margin

\* trades with two opponents are returned, one of the opponents had more kept
\* trades than the cap, and the list holds a 2-for-1 trade
OpportunitiesFromTwoOpponents ==
    /\ OpportunitiesReturned
    /\ \E i, j \in 1..Len(ret) : ret[i].other_team # ret[j].other_team
    /\ \E t \in Opponents : Cardinality(KeptTrades(t)) > call.max_trades_per_team
    /\ \E i \in 1..Len(ret) : Len(ret[i].give) = 2

\* C14: every returned opportunity has an advantage_margin greater than
\* min_advantage.
OpportunitiesClearMinAdvantage ==
    OpportunitiesReturned =>
        \A i \in 1..Len(ret) : ret[i].analysis.advantage_margin > call.min_advantage

\* C15: analyze_trade called with use_ros=True returns a result whose
\* weeks_remaining is the argument and whose uses_ros_projections is true,
\* and called with use_ros=False a result whose uses_ros_projections is false.
TradeReportsRosUse ==
    (pc = "done" /\ call.op = "analyze_trade" /\ call.use_ros \in {"True", "False"}) =>
        /\ ~raised
        /\ {"weeks_remaining", "uses_ros_projections"} \subseteq DOMAIN ret
        /\ ret.weeks_remaining = call.weeks_remaining
        /\ ret.uses_ros_projections = (call.use_ros = "True")

\* C16: the confidence is min(100, |my_value_change| / (my_current_value /
\* 10)) when my current roster value is positive and 0 otherwise, so it lies
\* in 0..100 and an empty roster divides nothing by zero.
TradeConfidenceCapped ==
    TradeReturned =>
        LET c == ret.confidence
            my_current_value == TradeValues.my_before
            change == IF ret.my_value_change < 0 THEN -ret.my_value_change
                      ELSE ret.my_value_change
        IN /\ c[2] > 0
           /\ 0 <= c[1] /\ c[1] <= 100 * c[2]
           /\ IF my_current_value > 0
              THEN IF 10 * change <= 100 * my_current_value
                   THEN c[1] * my_current_value = 10 * change * c[2]
                   ELSE c[1] = 100 * c[2]
              ELSE c[1] = 0

\* a trade whose raw quotient exceeds 100 and is capped: everything is given
\* away for nothing
TradeConfidenceAtCap ==
    /\ TradeReturned
    /\ TradeValues.my_before > 0
    /\ 10 * Abs(ret.my_value_change) > 100 * TradeValues.my_before
    /\ ret.confidence[1] = 100 * ret.confidence[2]

(***************************************************************************)
(* predict_performance (player performance model)                          *)
(***************************************************************************)
\* the additive bias of a hot (up) or cold (down) player, in points
StateBias(state, use_state_bias) ==
    IF ~use_state_bias THEN 0
    ELSE IF state = "hot" THEN 1
    ELSE IF state = "cold" THEN -1 ELSE 0

\* a draw left as it is
KeepDraw(x) == x

\* "clip negative draws to zero"
ClipDraw(x) == Max2(0, x)

\* the draws of the fitted mixture: anything within Spread of the season
\* average, which may be negative before the clip
MixtureDraws(season_avg) == {season_avg + d : d \in -Spread..Spread}

\* the centre of the fallback Normal: the projected average, or the raw
\* average if there is no projection
PredictFallbackMean(p) ==
    IF Truthy(GetAttr0(p.projected_avg_points))
    THEN p.projected_avg_points.v
    ELSE GetAttr0(p.avg_points).v

\* the values one sample can take
PredictSamples(p, use_state_bias) ==
    IF p.playerId \in models
    THEN LET st == player_states[p.playerId]
         IN {Returned(ClipDraw(x + StateBias(st.state, use_state_bias))) :
                x \in MixtureDraws(st.season_avg)}
    ELSE LET mean == PredictFallbackMean(p)
         IN {IF o.raised THEN o ELSE Returned(ClipDraw(o.value)) :
                o \in NormalDraws(mean, FallbackStd(mean))}

\* the outcomes of predict_performance(player, n_samples, use_state_bias)
RECURSIVE predict_performance(_, _, _)
predict_performance(p, n_samples, use_state_bias) ==
    IF n_samples = 0 THEN {Returned(<<>>)}
    ELSE {IF a.raised \/ b.raised THEN RaiseList
          ELSE Returned(Append(a.value, b.value)) :
              a \in predict_performance(p, n_samples - 1, use_state_bias),
              b \in PredictSamples(p, use_state_bias)}

PredictMaxSamples == 2
PredictMaxPoints == 2

PredictPlayers ==
    {Player(1, "QB", proj, Num(avg), SlotAbsent, StatusNone) :
        proj \in {Absent} \cup {Num(v) : v \in 0..PredictMaxPoints},
        avg \in 0..PredictMaxPoints}

\* one player; a fitted model comes with the player's state
InitPredict ==
    /\ n_components = ConfiguredComponents
    /\ cache = <<>>
    /\ NoRatings
    /\ \E p \in PredictPlayers : teams = <<Team(1, <<p>>, 0, <<>>)>>
    /\ current_week = 0
    /\ playoff_team_count = 0
    /\ num_simulations = 1
    /\ use_gmm = TRUE
    /\ \/ models = {} /\ player_states = <<>>
       \/ /\ models = {1}
          /\ \E st \in {"hot", "normal", "cold"} :
                 player_states = <<[season_avg |-> teams[1].roster[1].avg_points.v,
                                    state |-> st]>>
    /\ pc = "start"
    /\ \E n \in 0..PredictMaxSamples, b \in BOOLEAN :
           call = [op |-> "predict_performance", team |-> 1,
                   n_samples |-> n, use_state_bias |-> b]
    /\ ret = <<>>
    /\ raised = FALSE
    /\ NoLocals

PredictPerformanceCall ==
    /\ pc = "start"
    /\ call.op = "predict_performance"
    /\ \E o \in predict_performance(TeamById(call.team).roster[1], call.n_samples,
                                    call.use_state_bias) :
           /\ ret' = o.value
           /\ raised' = o.raised
    /\ pc' = "done"
    /\ UNCHANGED <<leagueVars, call, locals>>

NextPredict == PredictPerformanceCall

SpecPredict == InitPredict /\ [][NextPredict]_vars

\* C20: predict_performance returns exactly n_samples values, each >= 0,
\* with a fitted model (biased by a hot or cold state or not) and with the
\* fallback Normal around the projected average.
PredictionsCountedAndNonNegative ==
    (pc = "done" /\ call.op = "predict_performance") =>
        /\ ~raised
        /\ Len(ret) = call.n_samples
        /\ \A i \in 1..Len(ret) : ret[i] >= 0

\* a cold player with a fitted model, biased, whose draws include one that
\* was clipped to 0 and one that was not
PredictionClippedForColdPlayer ==
    /\ pc = "done" /\ call.op = "predict_performance" /\ ~raised
    /\ models = {1}
    /\ player_states[1].state = "cold"
    /\ call.use_state_bias
    /\ Len(ret) = PredictMaxSamples
    /\ \E i \in 1..Len(ret) : ret[i] = 0
    /\ \E i \in 1..Len(ret) : ret[i] > 0

(***************************************************************************)
(* Specification SpecMissing: simulate_roster_score on a one-player roster *)
(* whose projected and historical averages may be absent, None or zero     *)
(***************************************************************************)
MissingValues == {Absent, None, Num(0), Num(ScoreMaxPoints)}

MissingRosters ==
    {<<Player(1, "QB", proj, avg, slot, StatusNone)>> :
        proj \in MissingValues, avg \in MissingValues, slot \in {SlotAbsent, "QB"}}

InitMissing ==
    /\ n_components = ConfiguredComponents
    /\ cache = <<>>
    /\ NoRatings
    /\ \E r \in MissingRosters : teams = <<Team(1, r, 0, <<>>)>>
    /\ current_week = 0
    /\ playoff_team_count = 0
    /\ num_simulations = 1
    /\ use_gmm \in BOOLEAN
    /\ models \in {{}, {1}}
    /\ player_states = <<>>
    /\ pc = "start"
    /\ \E r \in ScoreRatings :
           call = [op |-> "simulate_roster_score", team |-> 1,
                   opponent_defense_rating |-> r]
    /\ ret = 0
    /\ raised = FALSE
    /\ NoLocals

SpecMissing == InitMissing /\ [][NextScore]_vars

\* C19: simulate_roster_score completes for players whose projected average
\* and/or historical average is absent, None or zero.
MissingProjectionsNeverRaise ==
    (pc = "done" /\ call.op = "simulate_roster_score") => ~raised

(***************************************************************************)
(* PlayerPerformanceModel: train_model, bulk_train and the cache           *)
(*                                                                         *)
(* espn_api/utils/player_performance.py is not among the sources.  The     *)
(* operations below follow the design document (sections 3, 4.1 and 4.2)   *)
(* and tests/utils/test_player_performance.py.  In this part `models` maps *)
(* a player id to the fitted model, `player_states` maps it to the state   *)
(* record, and a player carries `stats`, the sequence of weekly scores.    *)
(* season_avg is the pair <<sum, n>>, season_std is kept as its square,    *)
(* the pair <<n * sum of squares - sum^2, n^2>>.                           *)
(***************************************************************************)
\* the state keeps the last 3 weekly scores
RecentWeeks == 3

FewerObservations == RecentWeeks

\* a model is fitted on at least 5 weekly scores
MinObservations == 5

\* relative distance of the recent average from the season average, in
\* percent, beyond which a player is hot or cold
StateThreshold == 15

\* a mock player of the tests: playerId, position and stats[week]['points']
TrainPlayer(id, weekly_scores) ==
    [playerId |-> id, position |-> "WR", stats |-> weekly_scores]

\* d[k] = v
Put(d, k, v) == [x \in DOMAIN d \cup {k} |-> IF x = k THEN v ELSE d[x]]

RECURSIVE SumSquares(_)
SumSquares(s) == IF s = <<>> THEN 0 ELSE Head(s) * Head(s) + SumSquares(Tail(s))

season_avg(weekly_scores) == <<SumSeq(weekly_scores), Len(weekly_scores)>>

season_std(weekly_scores) ==
    <<Len(weekly_scores) * SumSquares(weekly_scores)
          - SumSeq(weekly_scores) * SumSeq(weekly_scores),
      Len(weekly_scores) * Len(weekly_scores)>>

\* weekly_scores[-3:]
recent_scores(weekly_scores) == Drop(weekly_scores, Max2(0, Len(weekly_scores) - RecentWeeks))

\* every recent average is at or below the season average: never used by
\* the model, a classification without the threshold
ClassifyExact(weekly_scores) ==
    LET r == recent_scores(weekly_scores)
        recent == SumSeq(r) * Len(weekly_scores)
        season == SumSeq(weekly_scores) * Len(r)
    IN IF recent > season THEN "hot"
       ELSE IF recent < season THEN "cold"
       ELSE "normal"

\* hot, cold or normal: the recent average against the season average
current_state(weekly_scores) ==
    LET r == recent_scores(weekly_scores)
        recent == SumSeq(r) * Len(weekly_scores)
        season == SumSeq(weekly_scores) * Len(r)
    IN IF 100 * recent > (100 + StateThreshold) * season THEN "hot"
       ELSE IF 100 * recent < (100 - StateThreshold) * season THEN "cold"
       ELSE "normal"

PlayerState(weekly_scores) ==
    [season_avg |-> season_avg(weekly_scores),
     season_std |-> season_std(weekly_scores),
     recent_scores |-> recent_scores(weekly_scores),
     current_state |-> current_state(weekly_scores)]

\* the fitted mixture: only its number of components is kept
Model(c) == [tag |-> "model", n_components |-> c]

\* the numbers of components a fit on n scores may use: at least 1, at most
\* the configured number and at most n - 1
ComponentCounts(n) == 1..Min2(n_components, n - 1)

\* _get_cache_path(player_id, year): player_<id>_<year>.pkl
_get_cache_path(player_id, year) == <<player_id, year>>

\* what one instance holds in memory, and the cache directory
Memory == [models |-> models, player_states |-> player_states, cache |-> cache]

\* never used by the model: a training that does not read the cache
CacheIgnored(mem, key, force_retrain) == FALSE

\* the entry of the key is loaded
CacheHit(mem, key, force_retrain) == ~force_retrain /\ key \in DOMAIN mem.cache

\* train_model(player, year, force_retrain): the outcomes, each the value
\* returned and the memory and cache left
train_model(mem, player, year, force_retrain) ==
    LET key == _get_cache_path(player.playerId, year)
        weekly_scores == player.stats
    IN IF CacheHit(mem, key, force_retrain)
       THEN {[value |-> mem.cache[key].model,
              mem |-> [mem EXCEPT
                          !.models = Put(@, player.playerId, mem.cache[key].model),
                          !.player_states = Put(@, player.playerId, mem.cache[key].state)]]}
       ELSE IF Len(weekly_scores) < MinObservations
       THEN {[value |-> None, mem |-> mem]}
       ELSE {[value |-> Model(c),
              mem |-> [models |-> Put(mem.models, player.playerId, Model(c)),
                       player_states |-> Put(mem.player_states, player.playerId,
                                             PlayerState(weekly_scores)),
                       cache |-> Put(mem.cache, key,
                                     [model |-> Model(c),
                                      state |-> PlayerState(weekly_scores)])]] :
             c \in ComponentCounts(Len(weekly_scores))}

\* never used by the model: every player of a batch reported as trained
AlwaysTrained(value) == TRUE

\* results[player.playerId] = model is not None
Trained(value) == value # None

\* bulk_train(players, year): the players in order, each through train_model
RECURSIVE BulkLoop(_, _, _, _)
BulkLoop(mem, trained, players, year) ==
    IF players = <<>> THEN {[value |-> trained, mem |-> mem]}
    ELSE UNION {BulkLoop(o.mem, Put(trained, Head(players).playerId, Trained(o.value)),
                         Tail(players), year) :
                o \in train_model(mem, Head(players), year, FALSE)}

bulk_train(mem, players, year) == BulkLoop(mem, <<>>, players, year)

\* _train_all_players: the rosters of all teams, one after the other
RECURSIVE AllPlayers(_)
AllPlayers(ts) == IF ts = <<>> THEN <<>> ELSE Head(ts).roster \o AllPlayers(Tail(ts))

PlayerById(id) ==
    LET all == AllPlayers(teams)
    IN all[CHOOSE i \in 1..Len(all) : all[i].playerId = id]

(***************************************************************************)
(* Specification SpecTrain: one cache directory, instances of the model on *)
(* it, training calls, and weekly scores recorded between the calls        *)
(***************************************************************************)
TrainMaxWeeks == 6
TrainMaxComponents == 5
TrainScores == {1, 3}
Years == {2023, 2024}

\* test_player_state_detection and test_cold_streak_detection
HotHistory == <<10, 11, 12, 13, 14, 18, 19, 20>>
ColdHistory == <<20, 19, 18, 17, 16, 12, 10, 8>>

\* the same score in each of n weeks
Steady(n) == {[week \in 1..n |-> x] : x \in TrainScores}

\* one player with a steady history short of the longest by two weeks next to
\* one with two weeks only, in both orders, and each of the two players of
\* the tests alone
TrainSquads ==
    {<<TrainPlayer(1, h), TrainPlayer(2, <<1, 3>>)>> : h \in Steady(TrainMaxWeeks - 2)}
    \cup {<<TrainPlayer(2, <<1, 3>>), TrainPlayer(1, h)>> : h \in Steady(TrainMaxWeeks - 2)}
    \cup {<<TrainPlayer(5, HotHistory)>>, <<TrainPlayer(6, ColdHistory)>>}

InitTrain ==
    /\ \E squad \in TrainSquads : teams = <<Team(1, squad, 0, <<>>)>>
    /\ current_week = 0
    /\ playoff_team_count = 0
    /\ num_simulations = 1
    /\ use_gmm = TRUE
    /\ n_components \in {ConfiguredComponents, TrainMaxComponents}
    /\ models = <<>>
    /\ player_states = <<>>
    /\ cache = <<>>
    /\ NoRatings
    /\ pc = "start"
    /\ call = [op |-> "__init__"]
    /\ ret = <<>>
    /\ raised = FALSE
    /\ NoLocals

trainFrame == <<current_week, playoff_team_count, num_simulations, use_gmm,
                n_components, raised, locals, reg_season_count, team_ratings>>

\* model.train_model(player, year, force_retrain)
TrainModel ==
    /\ \E i \in 1..Len(AllPlayers(teams)), year \in Years, force_retrain \in BOOLEAN :
           /\ call' = [op |-> "train_model", player |-> AllPlayers(teams)[i].playerId,
                       year |-> year, force_retrain |-> force_retrain]
           /\ \E o \in train_model(Memory, AllPlayers(teams)[i], year, force_retrain) :
                  /\ ret' = o.value
                  /\ models' = o.mem.models
                  /\ player_states' = o.mem.player_states
                  /\ cache' = o.mem.cache
    /\ pc' = "done"
    /\ UNCHANGED <<teams, trainFrame>>

\* _train_all_players: model.bulk_train(all_players, year)
BulkTrain ==
    /\ \E year \in Years :
           /\ call' = [op |-> "bulk_train", year |-> year]
           /\ \E o \in bulk_train(Memory, AllPlayers(teams), year) :
                  /\ ret' = o.value
                  /\ models' = o.mem.models
                  /\ player_states' = o.mem.player_states
                  /\ cache' = o.mem.cache
    /\ pc' = "done"
    /\ UNCHANGED <<teams, trainFrame>>

\* PlayerPerformanceModel(n_components, cache_dir): another instance on the
\* same cache directory
NewInstance ==
    /\ models # <<>>
    /\ models' = <<>>
    /\ player_states' = <<>>
    /\ call' = [op |-> "__init__"]
    /\ ret' = <<>>
    /\ pc' = "start"
    /\ UNCHANGED <<teams, cache, trainFrame>>

\* a week is played: its score is added to the stats of one player
RecordWeek ==
    /\ \E i \in 1..Len(teams[1].roster), x \in TrainScores :
           /\ Len(teams[1].roster[i].stats) >= TrainMaxWeeks - 2
           /\ Len(teams[1].roster[i].stats) < TrainMaxWeeks
           /\ teams' = [teams EXCEPT ![1].roster[i].stats = Append(@, x)]
    /\ call' = [op |-> "__init__"]
    /\ ret' = <<>>
    /\ pc' = "start"
    /\ UNCHANGED <<models, player_states, cache, trainFrame>>

NextTrain == TrainModel \/ BulkTrain \/ NewInstance \/ RecordWeek

SpecTrain == InitTrain /\ [][NextTrain]_vars
\* train_model has returned and nothing happened since
TrainReturned == pc = "done" /\ call.op = "train_model"

\* C21: train_model on a player with fewer than 5 weekly scores returns no
\* model and leaves no model, state or cache entry for the player; on a
\* player with n >= 5 scores it returns a model with between 1 and
\* min(n_components, n - 1) components and records the model and a state
\* under the player's id.
TrainedOnlyOnEnoughScores ==
    TrainReturned =>
        LET id == call.player
            n == Len(PlayerById(id).stats)
        IN IF n < 5
           THEN /\ ret = None
                /\ id \notin DOMAIN models
                /\ id \notin DOMAIN player_states
                /\ \A year \in Years : <<id, year>> \notin DOMAIN cache
           ELSE /\ ret.tag = "model"
                /\ 1 <= ret.n_components
                /\ ret.n_components <= n_components
                /\ ret.n_components <= n - 1
                /\ id \in DOMAIN models
                /\ models[id] = ret
                /\ id \in DOMAIN player_states

\* the player with two weeks was refused after the other player was fitted
\* with fewer components than configured, one fewer than its scores
TrainFittedAndRefused ==
    /\ TrainReturned
    /\ call.player = 2
    /\ ret = None
    /\ 1 \in DOMAIN models
    /\ models[1].n_components = Len(PlayerById(1).stats) - 1
    /\ models[1].n_components < n_components

\* C22: a training that fits leaves a cache entry for (player id, year) with
\* the model and the season average and deviation of the scores, also when
\* force_retrain is set and an entry exists; a training without force_retrain
\* that finds an entry leaves the cache alone and returns and records the
\* model and state of the entry, whatever the instance held before.
CachedThenLoaded ==
    [][(pc' = "done" /\ call'.op = "train_model") =>
          LET id == call'.player
              key == <<call'.player, call'.year>>
              weekly_scores == PlayerById(call'.player).stats
          IN IF ~call'.force_retrain /\ key \in DOMAIN cache
             THEN /\ cache' = cache
                  /\ ret' = cache[key].model
                  /\ models'[id] = cache[key].model
                  /\ player_states'[id].season_avg = cache[key].state.season_avg
                  /\ player_states'[id].season_std = cache[key].state.season_std
                  /\ player_states'[id] = cache[key].state
             ELSE /\ \A k \in DOMAIN cache \ {key} :
                         k \in DOMAIN cache' /\ cache'[k] = cache[k]
                  /\ Len(weekly_scores) >= 5 =>
                         /\ key \in DOMAIN cache'
                         /\ cache'[key].model = ret'
                         /\ cache'[key].state.season_avg =
                                <<SumSeq(weekly_scores), Len(weekly_scores)>>
                         /\ cache'[key].state.season_std = season_std(weekly_scores)
                         /\ models'[id] = ret'
                         /\ player_states'[id] = cache'[key].state]_vars

\* a training without force_retrain returned after a week was added to the
\* scores: the state it recorded is the one of the earlier fit
ReloadedAfterNewWeek ==
    /\ TrainReturned
    /\ ~call.force_retrain
    /\ ret # None
    /\ player_states[call.player].season_avg # season_avg(PlayerById(call.player).stats)
    /\ player_states[call.player] = cache[<<call.player, call.year>>].state

\* C23: a recorded state holds the last 3 scores of the history it was
\* computed on (the player's scores, or those up to an earlier week), and its
\* classification is hot when their average is above the season average by
\* more than the threshold, cold when it is below by more than the threshold,
\* normal otherwise; the two histories of the tests are hot and cold.
StateHoldsRecentScoresAndStreak ==
    \A id \in DOMAIN player_states :
        LET st == player_states[id]
            h == PlayerById(id).stats
        IN /\ \E n \in 5..Len(h) :
                  LET recent == h[n - 2] + h[n - 1] + h[n]
                      total == SumSeq(Take(h, n))
                  IN /\ st.recent_scores = <<h[n - 2], h[n - 1], h[n]>>
                     /\ st.current_state =
                            IF 100 * recent * n > (100 + StateThreshold) * 3 * total
                            THEN "hot"
                            ELSE IF 100 * recent * n < (100 - StateThreshold) * 3 * total
                            THEN "cold"
                            ELSE "normal"
           /\ h = HotHistory => st.current_state = "hot"
           /\ h = ColdHistory => st.current_state = "cold"

\* a state is normal although the recent average differs from the season
\* average
StreakWithinThresholdIsNormal ==
    \E id \in DOMAIN player_states :
        /\ player_states[id].current_state = "normal"
        /\ Len(player_states[id].recent_scores) = 3
        /\ SumSeq(player_states[id].recent_scores) * player_states[id].season_avg[2]
               # 3 * player_states[id].season_avg[1]

\* what a memory holds about one player and one cache key
About(mem, id, key) ==
    <<IF id \in DOMAIN mem.models THEN mem.models[id] ELSE None,
      IF id \in DOMAIN mem.player_states THEN mem.player_states[id] ELSE None,
      IF key \in DOMAIN mem.cache THEN mem.cache[key] ELSE None>>

\* C24: bulk_train returns one entry per player of the batch, true when a
\* model was obtained and false when the player had too few scores; what it
\* returns and leaves for each player is what train_model alone on that
\* player would have returned and left, whatever became of the others.
BulkTrainsEachAlone ==
    [][(pc' = "done" /\ call'.op = "bulk_train") =>
          LET players == AllPlayers(teams)
          IN /\ DOMAIN ret' = {players[i].playerId : i \in 1..Len(players)}
             /\ \A i \in 1..Len(players) :
                    LET id == players[i].playerId
                        key == <<id, call'.year>>
                    IN /\ ret'[id] \in BOOLEAN
                       /\ ret'[id] = (id \in DOMAIN models' /\ key \in DOMAIN cache')
                       /\ ret'[id] = FALSE <=>
                              (Len(players[i].stats) < 5 /\ key \notin DOMAIN cache)
                       /\ \E o \in train_model(Memory, players[i], call'.year, FALSE) :
                              /\ ret'[id] = (o.value # None)
                              /\ About(o.mem, id, key) = About(Memory', id, key)
             /\ \A k \in DOMAIN cache :
                    k[2] # call'.year => k \in DOMAIN cache' /\ cache'[k] = cache[k]]_vars

\* bulk_train has returned: the first player of the batch had too few scores
\* and the one after it was fitted
BulkTrainedAfterFailure ==
    /\ pc = "done"
    /\ call.op = "bulk_train"
    /\ Len(AllPlayers(teams)) = 2
    /\ ret[AllPlayers(teams)[1].playerId] = FALSE
    /\ ret[AllPlayers(teams)[2].playerId] = TRUE
    /\ AllPlayers(teams)[2].playerId \in DOMAIN models
(***************************************************************************)
(* The choice of the lineup                                                *)
(***************************************************************************)
\* the number of players the six get_best calls select from a roster
RequiredCount(roster) ==
    SumSeq([n \in 1..Len(RequiredSlots) |->
               Min2(RequiredSlots[n][2], CountAt(roster, RequiredSlots[n][1]))])

\* player a is preferred to player b of the roster: a higher value, or the
\* same value and an earlier place
Preferred(roster, a, b) ==
    \/ PlayerValue(roster[a]) > PlayerValue(roster[b])
    \/ PlayerValue(roster[a]) = PlayerValue(roster[b]) /\ a < b

\* C25: the required part of the lineup holds, for each required position,
\* min(count, players of the position) players of it, each preferred (higher
\* value, or equal value and earlier in the roster) to every player of the
\* position left out; the flex is a RB, WR or TE left over that is preferred
\* to every other one left over, and there is none only when no such player
\* is left.
LineupTakesTheBest ==
    LineupReturned =>
        LET roster == TeamById(call.team).roster
            req == RequiredCount(roster)
            place(p) == CHOOSE i \in 1..Len(roster) : roster[i] = p
            required == {place(ret[k]) : k \in 1..Min2(req, Len(ret))}
            left == {i \in 1..Len(roster) :
                        i \notin required /\ roster[i].position \in FlexPositions}
        IN /\ Len(ret) >= req
           /\ \A k \in 1..Len(ret) : In(ret[k], roster)
           /\ \A n \in 1..Len(RequiredSlots) :
                  LET pos == RequiredSlots[n][1]
                      chosen == {i \in required : roster[i].position = pos}
                  IN /\ Cardinality(chosen) =
                            Min2(RequiredSlots[n][2], CountAt(roster, pos))
                     /\ \A i \in chosen :
                            \A j \in 1..Len(roster) :
                                (roster[j].position = pos /\ j \notin chosen)
                                    => Preferred(roster, i, j)
           /\ IF left = {} THEN Len(ret) = req
              ELSE /\ Len(ret) = req + 1
                   /\ place(ret[Len(ret)]) \in left
                   /\ \A j \in left \ {place(ret[Len(ret)])} :
                          Preferred(roster, place(ret[Len(ret)]), j)

\* a lineup was returned in which a RB was chosen before a later RB of the
\* same value, and the flex before a later player of another position and
\* the same value
LineupDecidedTies ==
    /\ LineupReturned
    /\ Len(ret) = RequiredCount(TeamById(call.team).roster) + 1
    /\ \E i, j \in 1..Len(TeamById(call.team).roster) :
           LET roster == TeamById(call.team).roster
           IN /\ roster[i].position = "RB" /\ roster[j].position = "RB"
              /\ In(roster[i], Take(ret, Len(ret) - 1))
              /\ ~In(roster[j], Take(ret, Len(ret) - 1))
              /\ PlayerValue(roster[i]) = PlayerValue(roster[j])
    /\ \E j \in 1..Len(TeamById(call.team).roster) :
           LET roster == TeamById(call.team).roster
           IN /\ ~In(roster[j], ret)
              /\ roster[j].position \in FlexPositions
              /\ roster[j].position # ret[Len(ret)].position
              /\ PlayerValue(roster[j]) = PlayerValue(ret[Len(ret)])
(***************************************************************************)
(* Specification SpecBorrow: calls of the eight operations one after the   *)
(* other on one league                                                     *)
(***************************************************************************)
\* team 1 holds any trade roster, team 2 none or a running back and the
\* best quarterback
BorrowSecondRosters ==
    {<<>>, <<Player(0, "RB", Num(1), Num(1), SlotAbsent, StatusNone),
             Player(0, "QB", Num(TradeMaxPoints), Num(1), SlotAbsent, StatusNone)>>}

\* the free agents offered: none, or a running back and a wide receiver
BorrowFreeAgents ==
    {<<>>, <<Player(0, "RB", Num(FaMaxPoints + 1), Num(1), SlotAbsent, StatusNone),
             Player(0, "WR", Num(1), Num(1), SlotAbsent, StatusNone)>>}

\* the calls a caller can make on the league
BorrowCalls ==
    {[op |-> op, team |-> t] :
        op \in {"_get_optimal_lineup", "_calculate_roster_value"}, t \in 1..2}
    \cup {[op |-> "analyze_trade", my_team |-> 1, other_team |-> 2,
           my_players |-> mine, their_players |-> theirs,
           weeks_remaining |-> DefaultWeeks, use_ros |-> KeywordUnset] :
             mine \in SubLists(teams[1].roster), theirs \in SubLists(teams[2].roster)}
    \cup {[op |-> "find_trade_opportunities", my_team |-> 1,
           min_advantage |-> 0, max_trades_per_team |-> 1]}
    \cup {[op |-> "recommend_free_agents", my_team |-> 1,
           free_agents |-> Numbered(fas, 100), top_n |-> 1,
           positions |-> None, exclude_injured |-> KeywordUnset] :
             fas \in BorrowFreeAgents}
    \cup {[op |-> "simulate_matchup", team1 |-> 1, team2 |-> 2, n_simulations |-> None]}
    \cup {[op |-> "simulate_season_rest_of_season"]}
    \cup {[op |-> "_simulate_playoff_bracket", playoff_team_ids |-> ids] :
             ids \in {<<1, 2>>, <<2, 1>>}}

\* where each operation starts
EntryPoint(op) ==
    CASE op = "simulate_matchup" -> "loop"
      [] op = "simulate_season_rest_of_season" -> "trial"
      [] op = "_simulate_playoff_bracket" -> "bracket"
      [] OTHER -> "start"

InitBorrow ==
    /\ \E r1 \in TradeRosters, r2 \in BorrowSecondRosters, w \in 0..1 :
           teams = <<Team(1, Numbered(r1, 0), w, <<2>>),
                     Team(2, Numbered(r2, 10), 1 - w, <<1>>)>>
    /\ current_week = 0
    /\ playoff_team_count = 2
    /\ num_simulations = 1
    /\ use_gmm = FALSE
    /\ models = {}
    /\ player_states = <<>>
    /\ n_components = ConfiguredComponents
    /\ cache = <<>>
    /\ NoRatings
    /\ pc = "done"
    /\ call = [op |-> "__init__"]
    /\ ret = <<>>
    /\ raised = FALSE
    /\ NoLocals

\* the caller makes the next call once the one before has ended
NextCall ==
    /\ pc = "done"
    /\ \E c \in BorrowCalls :
           /\ call' = c
           /\ pc' = EntryPoint(c.op)
           /\ bracket' = IF c.op = "_simulate_playoff_bracket"
                         THEN c.playoff_team_ids ELSE <<>>
           /\ results' = IF c.op = "simulate_season_rest_of_season"
                         THEN InitialResults ELSE <<>>
    /\ ret' = <<>>
    /\ raised' = FALSE
    /\ trial' = 0
    /\ team1_wins' = 0
    /\ scores' = <<0, 0>>
    /\ season_wins' = <<>>
    /\ cursor' = 0
    /\ UNCHANGED leagueVars

NextBorrow ==
    \/ NextCall
    \/ GetOptimalLineup
    \/ CalculateRosterValue
    \/ AnalyzeTrade
    \/ FindTradeOpportunities
    \/ RecommendFreeAgents
    \/ MatchupTrial
    \/ MatchupReturn
    \/ SeasonTrialStart
    \/ SeasonWalk
    \/ SeasonPlayoffs
    \/ SeasonReturn
    \/ BracketRound
    \/ BracketReturn

SpecBorrow == InitBorrow /\ [][NextBorrow]_vars

\* C26: no step of any of the eight operations changes a team (its roster,
\* in membership and order, and its recorded wins), and none changes the
\* arguments of the running call, the lists players_out, players_in and
\* free_agents among them; the arguments change only when the caller makes
\* the next call.
BorrowedDataUnchanged ==
    [][/\ teams' = teams
       /\ pc # "done" => call' = call]_vars

\* the lineup of a roster was returned, a second call at the least: its
\* players are still in the roster, which holds a player more
LineupTakenFromKeptRoster ==
    /\ pc = "done"
    /\ call.op = "_get_optimal_lineup"
    /\ ret # <<>>
    /\ \A k \in 1..Len(ret) : In(ret[k], TeamById(call.team).roster)
    /\ Len(TeamById(call.team).roster) > Len(ret)
(***************************************************************************)
(* The trials of the season                                                *)
(***************************************************************************)
\* the schedule entries of a team from the current week on
RemainingEntries(id) == Len(Drop(TeamById(id).schedule, current_week))

\* the entries of a team among the first n the walk visits
WalkedEntries(id, n) ==
    Cardinality({k \in 1..n : ScheduleWalk(Len(teams))[k][1] = id})

\* C27: every trial starts from the recorded wins: while a trial walks the
\* schedule, the wins of each team are at least its recorded wins and at
\* most the recorded wins plus its entries walked so far; the totals kept
\* over the trials, and the projected_wins returned, lie between
\* current_wins and current_wins plus the team's remaining schedule entries,
\* per trial.
SeasonTrialsStartFromRecord ==
    /\ (pc = "games" /\ call.op = "simulate_season_rest_of_season") =>
           \A id \in SeqToSet(TeamIds) :
               /\ season_wins[id] >= TeamById(id).wins
               /\ season_wins[id] <= TeamById(id).wins + WalkedEntries(id, cursor)
               /\ WalkedEntries(id, cursor) <= RemainingEntries(id)
    /\ (pc \in {"trial", "games"} /\ call.op = "simulate_season_rest_of_season") =>
           \A id \in SeqToSet(TeamIds) :
               /\ results[id].projected_wins >= trial * TeamById(id).wins
               /\ results[id].projected_wins <=
                      trial * (TeamById(id).wins + RemainingEntries(id))
    /\ SeasonReturned =>
           \A id \in DOMAIN ret :
               /\ ret[id].projected_wins[2] = num_simulations
               /\ ret[id].projected_wins[1] >= ret[id].current_wins * num_simulations
               /\ ret[id].projected_wins[1] <=
                      (ret[id].current_wins + RemainingEntries(id)) * num_simulations

\* two trials were run and a team with a recorded win and a game left won
\* its game in both of them
SeasonWonEveryTrial ==
    /\ SeasonReturned
    /\ num_simulations = 2
    /\ \E id \in DOMAIN ret :
           /\ ret[id].current_wins > 0
           /\ RemainingEntries(id) > 0
           /\ ret[id].projected_wins[1] =
                  (ret[id].current_wins + RemainingEntries(id)) * num_simulations
\* the number of playoff qualifiers of a trial the league's settings allow
QualifierCount == Min2(playoff_team_count, Len(teams))

\* the sum of one field of the running totals over the teams
TotalOf(res, field) ==
    SumSeq([i \in 1..Len(teams) |-> res[teams[i].team_id][field]])

\* C28: at the end of a trial's games the playoff teams are
\* min(playoff_team_count, number of teams) teams, none of them with fewer
\* wins than a team left out, and of equal wins the one earlier in the
\* league; over the trials the playoff appearances add up to that number per
\* trial and every team has at most as many titles as appearances; in the
\* result championship_odds <= playoff_odds, the playoff_odds sum to
\* 100 * min(playoff_team_count, number of teams) and the championship_odds
\* sum to 100.
SeasonQualifiersAndChampion ==
    /\ (pc = "games" /\ call.op = "simulate_season_rest_of_season"
                     /\ cursor = Len(ScheduleWalk(Len(teams)))) =>
           LET playoff_teams == PlayoffTeams(season_wins)
               place(id) == CHOOSE i \in 1..Len(teams) : teams[i].team_id = id
           IN /\ Len(playoff_teams) = QualifierCount
              /\ \A k \in 1..Len(playoff_teams) : \A i \in 1..Len(teams) :
                     LET in == playoff_teams[k]
                         out == teams[i].team_id
                     IN ~In(out, playoff_teams) =>
                            \/ season_wins[in] > season_wins[out]
                            \/ season_wins[in] = season_wins[out] /\ place(in) < i
    /\ (pc \in {"trial", "games"} /\ call.op = "simulate_season_rest_of_season") =>
           /\ TotalOf(results, "playoff_odds") = trial * QualifierCount
           /\ \A id \in DOMAIN results :
                  results[id].championship_odds <= results[id].playoff_odds
    /\ SeasonReturned =>
           /\ \A id \in DOMAIN ret :
                  ret[id].championship_odds[1] <= ret[id].playoff_odds[1]
           /\ SumSeq([i \in 1..Len(teams) |-> ret[teams[i].team_id].playoff_odds[1]])
                  = 100 * QualifierCount * num_simulations
           /\ SumSeq([i \in 1..Len(teams) |-> ret[teams[i].team_id].championship_odds[1]])
                  = 100 * num_simulations
(***************************************************************************)
(* Ties                                                                    *)
(***************************************************************************)
\* some pair of scores the two teams can draw has the first strictly higher
CanBeat(a, b) ==
    \E o1 \in simulate_roster_score(TeamById(a).roster, DefaultRating),
       o2 \in simulate_roster_score(TeamById(b).roster, DefaultRating) :
        ~o1.raised /\ ~o2.raised /\ o1.value > o2.value

\* some pair of scores the two teams can draw has the first equal or lower
CanTieOrLose(a, b) ==
    \E o1 \in simulate_roster_score(TeamById(a).roster, DefaultRating),
       o2 \in simulate_roster_score(TeamById(b).roster, DefaultRating) :
        ~o1.raised /\ ~o2.raised /\ o1.value <= o2.value

\* C29: a matchup trial adds a win to team1 exactly when its score is
\* strictly higher, and the probabilities returned are those of the tally,
\* so two empty rosters give team1 0% and team2 100%; a walked schedule
\* entry adds a win, to the walking team only, only when that team can score
\* strictly higher than its opponent, and adds one whenever it cannot tie or
\* lose; a bracket pair advances its first team only when that team can
\* score strictly higher, and its second whenever the first cannot.
TiesGoAgainstFirstSide ==
    [][/\ (pc = "loop" /\ call.op = "simulate_matchup" /\ trial' = trial + 1) =>
              team1_wins' = team1_wins + (IF scores'[1] > scores'[2] THEN 1 ELSE 0)
       /\ (pc = "loop" /\ call.op = "simulate_matchup" /\ pc' = "done" /\ ~raised') =>
              /\ ret'.team1_win_probability = <<team1_wins * 100, NSimulations>>
              /\ ret'.team2_win_probability =
                     <<(NSimulations - team1_wins) * 100, NSimulations>>
              /\ (TeamById(call.team1).roster = <<>> /\ TeamById(call.team2).roster = <<>>)
                     => /\ ret'.team1_win_probability[1] = 0
                        /\ ret'.team2_win_probability[1] = 100 * NSimulations
       /\ (pc = "games" /\ cursor' = cursor + 1) =>
              LET entry == ScheduleWalk(Len(teams))[cursor + 1]
                  gain == season_wins'[entry[1]] - season_wins[entry[1]]
              IN /\ \A id \in DOMAIN season_wins :
                        id # entry[1] => season_wins'[id] = season_wins[id]
                 /\ gain \in {0, 1}
                 /\ gain = 1 => IsPlayed(entry) /\ CanBeat(entry[1], entry[2])
                 /\ gain = 0 => ~IsPlayed(entry) \/ CanTieOrLose(entry[1], entry[2])
       /\ (pc = "bracket" /\ call.op = "_simulate_playoff_bracket"
                          /\ Len(bracket) = 2 /\ bracket' # bracket) =>
              /\ Len(bracket') = 1
              /\ bracket'[1] = bracket[1] => CanBeat(bracket[1], bracket[2])
              /\ bracket'[1] = bracket[2] => CanTieOrLose(bracket[1], bracket[2])
      ]_vars

\* simulate_matchup returned for two empty rosters: every trial was a tie,
\* team1 has 0% and team2 100%
EmptyRostersTie ==
    /\ MatchupReturned
    /\ TeamById(call.team1).roster = <<>>
    /\ TeamById(call.team2).roster = <<>>
    /\ scores = <<0, 0>>
    /\ trial > 0
    /\ ret.team1_win_probability[1] = 0
    /\ ret.team2_win_probability[1] = 100 * trial
(***************************************************************************)
(* MonteCarloSimulator (espn_api/utils/monte_carlo.py): the team ratings   *)
(* and _apply_strategy_weights.  A rating's mean and std are quotients     *)
(* <<a, b>>, its roster_value is in tenths; the weights of a strategy are  *)
(* in hundredths.                                                          *)
(***************************************************************************)
DraftPositions == <<"QB", "RB", "WR", "TE", "K", "D/ST">>

\* a player of the draft analysis: position, projected_points and
\* points_per_game, each a number or not set
DraftPlayer(pos, projected, per_game) ==
    [position |-> pos, projected_points |-> projected, points_per_game |-> per_game]

\* "getattr(player, 'projected_points', 0)", and when that is 0
\* "getattr(player, 'points_per_game', 0) * reg_season_count"
DraftValue(p) ==
    IF GetAttr0(p.projected_points).v = 0
    THEN GetAttr0(p.points_per_game).v * reg_season_count
    ELSE GetAttr0(p.projected_points).v

_get_preseason_projection(team) ==
    SumSeq([k \in 1..Len(team.roster) |-> DraftValue(team.roster[k])])

\* position_weights, in tenths; "position_weights.get(pos, 1.0)"
PositionWeight(pos) ==
    CASE pos = "QB" -> 12
      [] pos \in {"RB", "WR"} -> 11
      [] pos = "TE" -> 8
      [] pos = "K" -> 5
      [] pos = "D/ST" -> 7
      [] OTHER -> 10

\* MonteCarloSimulator._calculate_roster_value, in tenths
RatingRosterValue(team) ==
    SumSeq([k \in 1..Len(team.roster) |->
               DraftValue(team.roster[k]) * PositionWeight(team.roster[k].position)])

\* _get_team_ratings of a preseason simulator: std is 20% of the projection
_get_team_ratings ==
    [id \in SeqToSet(TeamIds) |->
        [mean |-> <<_get_preseason_projection(TeamById(id)), 1>>,
         std |-> <<2 * _get_preseason_projection(TeamById(id)), 10>>,
         roster_value |-> RatingRosterValue(TeamById(id))]]

\* the strategies of analyze_draft_strategy
StrategyWeights(strategy) ==
    CASE strategy = "Zero RB" ->
             [p \in SeqToSet(DraftPositions) |->
                 CASE p = "RB" -> 10 [] p = "WR" -> 40 [] p = "TE" -> 20
                   [] p = "QB" -> 20 [] OTHER -> 5]
      [] strategy = "RB Heavy" ->
             [p \in SeqToSet(DraftPositions) |->
                 CASE p = "RB" -> 40 [] p = "WR" -> 20 [] p = "TE" -> 10
                   [] p = "QB" -> 20 [] OTHER -> 5]
      [] strategy = "Balanced" ->
             [p \in SeqToSet(DraftPositions) |->
                 CASE p = "RB" -> 25 [] p = "WR" -> 25 [] p = "TE" -> 15
                   [] p = "QB" -> 25 [] OTHER -> 5]

Strategies == {"Zero RB", "RB Heavy", "Balanced"}

\* _get_roster_composition: the share of each position in the value of the
\* roster, all zero for a roster worth nothing
_get_roster_composition(team) ==
    LET of(pos) == SumSeq([k \in 1..Len(team.roster) |->
                              IF team.roster[k].position = pos
                              THEN DraftValue(team.roster[k]) ELSE 0])
        total_value == _get_preseason_projection(team)
    IN [pos \in SeqToSet(DraftPositions) |->
           <<of(pos), IF total_value > 0 THEN total_value ELSE 1>>]

\* "sum(weights[pos] * pct for pos, pct in roster_comp.items())"
strategy_match(weights, roster_comp) ==
    <<SumSeq([k \in 1..Len(DraftPositions) |->
                 weights[DraftPositions[k]] * roster_comp[DraftPositions[k]][1]]),
      100 * roster_comp[DraftPositions[1]][2]>>

\* "modified_ratings = self.team_ratings.copy()": the copy holds the rating
\* dicts of self.team_ratings themselves, so what is written to a rating of
\* the copy is written to the rating of the simulator
RatingsAfterCopy(original, worked) == worked

\* the ratings with every mean multiplied by the team's strategy match
ModifiedRatings(weights) ==
    [id \in DOMAIN team_ratings |->
        LET m == strategy_match(weights, _get_roster_composition(TeamById(id)))
        IN [team_ratings[id] EXCEPT !.mean = <<@[1] * m[1], @[2] * m[2]>>]]

(***************************************************************************)
(* Specification SpecStrategy: calls of _apply_strategy_weights on a       *)
(* preseason simulator                                                     *)
(***************************************************************************)
StrategyMaxCalls == 2

\* rosters: none, a projected quarterback, a running back known by its
\* points per game next to a wide receiver
StrategyRosters ==
    {<<>>,
     <<DraftPlayer("QB", Num(1), Absent)>>,
     <<DraftPlayer("RB", Num(0), Num(1)), DraftPlayer("WR", Num(2), Absent)>>,
     <<DraftPlayer("RB", Num(3), Num(1)), DraftPlayer("TE", Absent, Absent)>>}

InitStrategy ==
    /\ \E r1 \in StrategyRosters, r2 \in StrategyRosters :
           teams = <<Team(1, r1, 0, <<>>), Team(2, r2, 0, <<>>)>>
    /\ reg_season_count \in 1..2
    /\ team_ratings = _get_team_ratings
    /\ current_week = 0
    /\ playoff_team_count = 0
    /\ num_simulations = 1
    /\ use_gmm = FALSE
    /\ models = {}
    /\ player_states = <<>>
    /\ n_components = ConfiguredComponents
    /\ cache = <<>>
    /\ pc = "start"
    /\ call = [op |-> "__init__"]
    /\ ret = <<>>
    /\ raised = FALSE
    /\ NoLocals

\* one call _apply_strategy_weights(weights), as made in every pass of the
\* loops of analyze_draft_strategy
ApplyStrategyWeights ==
    /\ trial < StrategyMaxCalls
    /\ \E strategy \in Strategies :
           /\ call' = [op |-> "_apply_strategy_weights", weights |-> strategy]
           /\ ret' = ModifiedRatings(StrategyWeights(strategy))
           /\ team_ratings' = RatingsAfterCopy(team_ratings,
                                               ModifiedRatings(StrategyWeights(strategy)))
    /\ trial' = trial + 1
    /\ pc' = "done"
    /\ UNCHANGED <<teams, current_week, playoff_team_count, num_simulations, use_gmm,
                   models, player_states, n_components, cache, reg_season_count,
                   raised, team1_wins, scores, season_wins, results, cursor, bracket>>

NextStrategy == ApplyStrategyWeights

SpecStrategy == InitStrategy /\ [][NextStrategy]_vars

\* C30: after any number of calls of _apply_strategy_weights the mean of
\* every team in team_ratings is the one of the construction (the preseason
\* projection of the team), and the ratings a call returns hold that mean
\* multiplied by the strategy match of the team, once.
BaseRatingsKept ==
    \A id \in DOMAIN team_ratings :
        LET base == _get_preseason_projection(TeamById(id))
        IN /\ team_ratings[id].mean[1] = base * team_ratings[id].mean[2]
           /\ (pc = "done" /\ call.op = "_apply_strategy_weights") =>
                  LET m == strategy_match(StrategyWeights(call.weights),
                                          _get_roster_composition(TeamById(id)))
                  IN ret[id].mean[1] * m[2] = base * m[1] * ret[id].mean[2]
====
